---------------------------- MODULE Spec2Model ----------------------------
(***************************************************************************)
(* Model of the release orchestration of changelogitlab:                   *)
(*   - performRelease (release.ts), one run per behaviour, one action per  *)
(*     await boundary of the async function;                               *)
(*   - the Provider Gateway (providers.ts): getProvider and the four       *)
(*     unified functions;                                                  *)
(*   - normalizeAssets, a pure function over character sequences;          *)
(*   - the GitLab adapter (gitlab.ts): resolveAuthors with its concurrent  *)
(*     login lookups, sendRelease and uploadAssets, one action per await   *)
(*     boundary, and the module-level project id cache they share.         *)
(*                                                                         *)
(* JavaScript values are tagged records: [type, val].  A JS string that    *)
(* is only tested (truthiness, typeof) or carried is a TLA+ string; a JS   *)
(* string that is split and trimmed (an asset specification) is a          *)
(* sequence of one-character strings.                                      *)
(***************************************************************************)
EXTENDS Integers, Sequences, FiniteSets, TLC

VARIABLES
    context,    \* ReleaseContext handed to performRelease
    options,    \* PerformReleaseOptions
    clone,      \* the local git clone the run works in
    pc,         \* position of the performRelease run
    calls,      \* provider / git calls issued so far, in order
    settled,    \* awaited calls that have settled, with their outcome, in order
    writes,     \* fs.writeFile calls issued so far, in order
    stored,     \* files on disk: set of [path, data] actually written
    result,     \* settlement of the promise returned by performRelease
    assetsArg,  \* normalizeAssets: the asset specification passed in
    normPc,     \* normalizeAssets: position of the calls
    normResult, \* normalizeAssets(assetsArg)
    joinedResult,  \* normalizeAssets(assetsArg.join(',')) for a list
    adapterList,  \* uploadAssets: the assetList parsed from assetsArg, once parsed
    gwCall,     \* gateway: the function called and the discriminator it is given
    gwPc,       \* gateway: position of the call
    gwProvider, \* gateway: the provider getProvider returned
    gwEntered,  \* gateway: adapter methods entered so far, in order
    gwResult,   \* gateway: how the call ended
    localProjectId,  \* gitlab.ts: the module-level project id cache
    auCommits,  \* resolveAuthors: the commits passed in
    auToken,    \* resolveAuthors: options.token
    auPc,       \* resolveAuthors: position of the call
    auHeap,     \* resolveAuthors: the AuthorInfo objects created, by address
    auMap,      \* resolveAuthors: the Map from email to AuthorInfo (address)
    auResolved, \* resolveAuthors: commit.resolvedAuthors of every commit
    auLookup,   \* resolveAuthors: position of resolveAuthorInfo per object
    auRequests, \* resolveAuthors: requests sent to GitLab, in order
    auResult,   \* resolveAuthors: settlement of the returned promise
    glReleases, \* GitLab: the tags the project has a release for
    srCalls,    \* sendRelease: calls made so far
    srPc,       \* sendRelease: position of the call under way
    srWrite,    \* sendRelease: method and url chosen by the call under way
    srRequests, \* sendRelease: requests sent to GitLab, in order
    srResults,  \* sendRelease: settlement of every call, in order
    upAssets,   \* uploadAssets: the assets argument
    upPc,       \* uploadAssets: position of the call
    upList,     \* uploadAssets: assetList
    upExpanded, \* uploadAssets: expandedAssets
    upIndex,    \* uploadAssets: index of the loop under way
    upSteps,    \* uploadAssets: globs, reads and requests so far, in order
    upLinks,    \* uploadAssets: uploadedLinks
    upResult,   \* uploadAssets: settlement of the returned promise
    upPut,      \* uploadAssets: body of the PUT of the release, once sent
    pidEnv,     \* getProjectId: process.env.GITLAB_PROJECT_ID at load
    pidCalls,   \* getProjectId: the calls, in call order
    pidLog,     \* getProjectId: calls, requests and settlements, in order
    cfgLoaded,  \* generate: the config loadConfig answered
    cfgConfig,  \* generate: config, as resolveConfig has set it so far
    cfgPc,      \* generate: position of the call
    cfgLog,     \* generate: calls to git, provider and release, in order
    cfgResult,  \* generate: settlement of the returned promise
    cliArgs,    \* cli: args as cac parsed them
    cliEnv,     \* cli: process.env, the six token variables
    cliPc,      \* cli: position of the action
    cliToken,   \* cli: token
    cliReads,   \* cli: files and commands read, in order, with their answers
    cliArgsToken,\* cli: args.token as executeChangelog gets it
    exOptions,  \* executeChangelog: options
    exPc,       \* executeChangelog: position of the call
    exResult,   \* executeChangelog: settlement of the returned promise
    htPc,       \* hasTagOnGitLab: position of the call
    htRequests, \* hasTagOnGitLab: the requests sent, in order, with outcomes
    htResult    \* hasTagOnGitLab: settlement of the returned promise

\* state of a performRelease run
RunVars == <<context, options, clone, pc, calls, settled, writes, stored, result>>
\* state of the normalizeAssets calls
NormVars == <<assetsArg, normPc, normResult, joinedResult, adapterList>>

\* state of a call into providers.ts
GwVars == <<gwCall, gwPc, gwProvider, gwEntered, gwResult>>

\* state of a resolveAuthors call
AuVars == <<auCommits, auToken, auPc, auHeap, auMap, auResolved, auLookup,
            auRequests, auResult>>

\* state of the sendRelease calls of the GitLab adapter, and of GitLab
SrVars == <<glReleases, srCalls, srPc, srWrite, srRequests, srResults>>

\* state of an uploadAssets call of the GitLab adapter
UpVars == <<upAssets, upPc, upList, upExpanded, upIndex, upSteps, upLinks,
            upResult, upPut>>

\* state of the getProjectId calls of a process
PidVars == <<pidEnv, pidCalls, pidLog>>

\* state of a generate call and of the resolveConfig call in it
CfgVars == <<cfgLoaded, cfgConfig, cfgPc, cfgLog, cfgResult>>

\* state of the command line action while it finds the token
CliVars == <<cliArgs, cliEnv, cliPc, cliToken, cliReads, cliArgsToken>>

\* state of an executeChangelog call
ExVars == <<exOptions, exPc, exResult>>

\* state of a hasTagOnGitLab call
HtVars == <<htPc, htRequests, htResult>>

vars == <<RunVars, NormVars, GwVars, localProjectId, AuVars, SrVars, UpVars,
          PidVars, CfgVars, CliVars,
          ExVars, HtVars>>

\* what a performRelease run leaves alone
OutsideRun == <<NormVars, GwVars, localProjectId, AuVars, SrVars, UpVars,
                PidVars, CfgVars, CliVars,
                ExVars, HtVars>>
\* what a normalizeAssets call leaves alone
OutsideNorm == <<RunVars, GwVars, localProjectId, AuVars, SrVars, UpVars,
                 PidVars, CfgVars, CliVars,
                 ExVars, HtVars>>
\* what a call into providers.ts leaves alone
OutsideGateway == <<RunVars, NormVars, localProjectId, AuVars, SrVars, UpVars,
                    PidVars, CfgVars, CliVars,
                    ExVars, HtVars>>
\* what a resolveAuthors call leaves alone (it shares localProjectId)
OutsideAuthors == <<RunVars, NormVars, GwVars, SrVars, UpVars,
                    PidVars, CfgVars, CliVars,
                    ExVars, HtVars>>
\* what a sendRelease call leaves alone (it shares localProjectId)
OutsideSendRelease == <<RunVars, NormVars, GwVars, AuVars, UpVars,
                        PidVars, CfgVars, CliVars,
                        ExVars, HtVars>>
\* what an uploadAssets call leaves alone (it shares localProjectId)
OutsideUpload == <<RunVars, NormVars, GwVars, AuVars, SrVars,
                   PidVars, CfgVars, CliVars,
                   ExVars, HtVars>>
\* what a generate call leaves alone
OutsideConfig == <<RunVars, NormVars, GwVars, localProjectId, AuVars, SrVars,
                   UpVars, PidVars, CliVars,
                   ExVars, HtVars>>
\* what the action of the command line leaves alone
OutsideCli == <<RunVars, NormVars, GwVars, localProjectId, AuVars, SrVars,
               UpVars, PidVars, CfgVars,
               ExVars, HtVars>>
\* what a getProjectId call leaves alone (it shares localProjectId)
OutsideProjectId == <<RunVars, NormVars, GwVars, AuVars, SrVars, UpVars,
                      CfgVars, CliVars,
                      ExVars, HtVars>>
\* what the steps of executeChangelog outside performRelease leave alone
OutsideExecute == <<NormVars, GwVars, localProjectId, AuVars, SrVars, UpVars,
                    PidVars, CfgVars, CliVars, HtVars>>
\* what a hasTagOnGitLab call leaves alone (it shares localProjectId)
OutsideHasTag == <<NormVars, GwVars, AuVars, SrVars, UpVars,
                   PidVars, CfgVars, CliVars, ExVars>>

--------------------------------------------------------------------------
(* Bounds of the model *)

\* longest asset specification string drawn for a performRelease run
RunAssetLen == 1
\* most fragments of an asset list drawn for a performRelease run
RunAssetItems == 1
\* longest asset specification string normalizeAssets is applied to
NormMaxLen == 4
\* longest fragment of an asset list normalizeAssets is applied to
NormFragLen == 2
\* most fragments of an asset list normalizeAssets is applied to
NormMaxItems == 2
\* most author entries of the commits passed to resolveAuthors, together,
\* when no token is configured
MaxAuthorEntries == 3
\* most author entries of the commits passed to resolveAuthors, together,
\* when a token is configured and logins are looked up
MaxLookupEntries == 2
\* most sendRelease calls made for the tag, one after the other
MaxSendReleaseCalls == 3
\* most patterns of the assets passed to uploadAssets
MaxUploadPatterns == 2
\* getProjectId calls of one process
MaxProjectIdCalls == 3
\* characters of GITLAB_PROJECT_ID
MaxEnvLen == 2

--------------------------------------------------------------------------
(* JavaScript values *)

Undefined == [type |-> "undefined", val |-> ""]
Str(s) == [type |-> "string", val |-> s]

\* !!v for a value that is undefined or a string
Truthy(v) == v.type = "string" /\ v.val # ""

\* asset specifications: string | string[] | undefined
NoAssets == [type |-> "undefined", val |-> <<>>]
AssetString(chars) == [type |-> "string", val |-> chars]
AssetArray(items) == [type |-> "array", val |-> items]

\* !!assets: an array is truthy even when empty, "" and undefined are falsy
AssetsTruthy(a) ==
    \/ a.type = "array"
    \/ a.type = "string" /\ a.val # <<>>

\* characters an asset specification is made of
AssetChars == {"a", ",", " "}
\* characters of the specifications normalizeAssets is applied to
NormChars == {"a", "b", ",", " "}
\* String.prototype.trim strips these
Whitespace == {" "}

SeqsUpTo(S, n) == UNION {[1..k -> S] : k \in 0..n}

--------------------------------------------------------------------------
(* normalizeAssets *)

\* index of the first "," of s, 0 when there is none
RECURSIVE FirstComma(_, _)
FirstComma(s, i) ==
    IF i > Len(s) THEN 0
    ELSE IF s[i] = "," THEN i
    ELSE FirstComma(s, i + 1)

\* s.split(','): "" gives [""], "a," gives ["a", ""]
RECURSIVE Split(_)
Split(s) ==
    LET c == FirstComma(s, 1) IN
    IF c = 0 THEN <<s>>
    ELSE <<SubSeq(s, 1, c - 1)>> \o Split(SubSeq(s, c + 1, Len(s)))

RECURSIVE TrimStart(_)
TrimStart(s) ==
    IF s # <<>> /\ Head(s) \in Whitespace THEN TrimStart(Tail(s)) ELSE s

RECURSIVE TrimEnd(_)
TrimEnd(s) ==
    IF s # <<>> /\ s[Len(s)] \in Whitespace
    THEN TrimEnd(SubSeq(s, 1, Len(s) - 1))
    ELSE s

\* s.trim()
Trim(s) == TrimEnd(TrimStart(s))

\* list.map(s => s.trim())
MapTrim(list) == [i \in 1..Len(list) |-> Trim(list[i])]

\* list.filter(Boolean) on strings: drops ""
FilterBoolean(list) == SelectSeq(list, LAMBDA s : s # <<>>)

\* assets.flatMap(item => item.split(',').map(s => s.trim()))
RECURSIVE FlatMapSplitTrim(_)
FlatMapSplitTrim(items) ==
    IF items = <<>> THEN <<>>
    ELSE MapTrim(Split(Head(items))) \o FlatMapSplitTrim(Tail(items))

\* the Array.isArray branch
ArrayBranch(items) == FilterBoolean(FlatMapSplitTrim(items))

StringBranch_NoTrim(chars) == FilterBoolean(Split(chars))
\* the string branch
StringBranch(chars) == FilterBoolean(MapTrim(Split(chars)))

normalizeAssets(assets) ==
    IF ~AssetsTruthy(assets) THEN <<>>
    ELSE IF assets.type = "array" THEN ArrayBranch(assets.val)
    ELSE StringBranch(assets.val)


\* items.join(',')
RECURSIVE Join(_)
Join(items) ==
    IF items = <<>> THEN <<>>
    ELSE IF Len(items) = 1 THEN Head(items)
    ELSE Head(items) \o <<",">> \o Join(Tail(items))

RECURSIVE TotalLen(_)
TotalLen(items) ==
    IF items = <<>> THEN 0 ELSE Len(Head(items)) + TotalLen(Tail(items))

\* asset lists normalizeAssets is applied to: no more characters in all
\* than the longest string
NormLists ==
    {l \in SeqsUpTo(SeqsUpTo(NormChars, NormFragLen), NormMaxItems) :
        TotalLen(l) <= NormMaxLen}

\* asset specifications normalizeAssets is applied to
NormInputs ==
    {NoAssets}
    \cup {AssetString(s) : s \in SeqsUpTo(NormChars, NormMaxLen)}
    \cup {AssetArray(l) : l \in NormLists}

\* uploadAssets has not parsed the asset specification
NotParsed == [parsed |-> FALSE, list |-> <<>>]

\* no normalizeAssets call under way
NormIdle ==
    /\ assetsArg = NoAssets
    /\ normPc = "idle"
    /\ normResult = <<>>
    /\ joinedResult = <<>>
    /\ adapterList = NotParsed

NormInit ==
    /\ assetsArg \in NormInputs
    /\ normPc = "called"
    /\ normResult = <<>>
    /\ joinedResult = <<>>
    /\ adapterList = NotParsed

\* normalizeAssets(assetsArg) returns
Normalize ==
    /\ normPc = "called"
    /\ normResult' = normalizeAssets(assetsArg)
    /\ normPc' = "returned"
    /\ UNCHANGED <<assetsArg, joinedResult, adapterList>>
    /\ UNCHANGED OutsideNorm

\* for a list, normalizeAssets of its comma-joined string returns
NormalizeJoined ==
    /\ normPc = "returned"
    /\ assetsArg.type = "array"
    /\ joinedResult' = normalizeAssets(AssetString(Join(assetsArg.val)))
    /\ normPc' = "compared"
    /\ UNCHANGED <<assetsArg, normResult, adapterList>>
    /\ UNCHANGED OutsideNorm

--------------------------------------------------------------------------
(* Provider Gateway: providers.ts *)

ProviderOps == {"sendRelease", "resolveAuthors", "hasTag", "uploadAssets"}

GitHubProvider == [name |-> "github", ops |-> ProviderOps]
GitLabProvider == [name |-> "gitlab", ops |-> ProviderOps]

\* own properties of the object literal `providers`
providers == [github |-> GitHubProvider, gitlab |-> GitLabProvider]

\* `providers` is a plain object literal: a property lookup that misses its
\* own keys goes on to Object.prototype, whose members are all truthy
ObjectPrototypeKeys ==
    {"constructor", "toString", "valueOf", "hasOwnProperty", "__proto__"}

NoProvider == [name |-> "undefined", ops |-> {}]
InheritedMember(key) == [name |-> "Object.prototype." \o key, ops |-> {}]

\* providers[repoProvider as keyof typeof providers]
PropertyLookup(key) ==
    IF key \in DOMAIN providers THEN providers[key]
    ELSE IF key \in ObjectPrototypeKeys THEN InheritedMember(key)
    ELSE NoProvider

UnsupportedProviderError(repoProvider) ==
    [name |-> "Error",
     message |-> "Unsupported repository provider: " \o repoProvider]

NotAFunctionError(fn) ==
    [name |-> "TypeError",
     message |-> "provider." \o fn \o " is not a function"]

getProvider(repoProvider) ==
    LET provider == PropertyLookup(repoProvider) IN
    IF provider = NoProvider
    THEN [kind |-> "throw", provider |-> NoProvider,
          error |-> UnsupportedProviderError(repoProvider)]
    ELSE [kind |-> "return", provider |-> provider,
          error |-> UnsupportedProviderError("")]

\* options.repoProvider || 'github'
OrGithub(repoProvider) ==
    IF Truthy(repoProvider) THEN repoProvider.val ELSE "github"

\* the two statements every unified function is made of: select the provider,
\* then delegate to its method.  Gives the adapter delegated to, or the error
\* thrown before the adapter is entered.
GatewaySelect(fn, repoProvider) ==
    LET got == getProvider(OrGithub(repoProvider)) IN
    IF got.kind = "throw"
    THEN [kind |-> "throw", adapter |-> "none", error |-> got.error]
    ELSE IF fn \notin got.provider.ops
    THEN [kind |-> "throw", adapter |-> "none", error |-> NotAFunctionError(fn)]
    ELSE [kind |-> "delegate", adapter |-> got.provider.name,
          error |-> UnsupportedProviderError("")]

\* the error of a failed request, as an adapter lets it escape
AdapterError(adapter, fn) ==
    [name |-> "FetchError", message |-> adapter \o "." \o fn \o " failed"]

\* discriminators handed to providers.ts
Discriminators ==
    {"github", "gitlab", "", "bitbucket", "unsupported",
     "constructor", "toString", "__proto__"}

\* what a caller passes: a name to getProvider, options.repoProvider (which
\* may be unset) to a unified function
GwCalls ==
    {[fn |-> "getProvider", arg |-> Str(d)] : d \in Discriminators}
    \cup {[fn |-> fn, arg |-> d] :
             fn \in ProviderOps,
             d \in {Str(x) : x \in Discriminators} \cup {Undefined}}

NoError == [name |-> "none", message |-> ""]

\* no call into providers.ts under way
GwIdle ==
    /\ gwCall = [fn |-> "none", arg |-> Undefined]
    /\ gwPc = "idle"
    /\ gwProvider = NoProvider
    /\ gwEntered = <<>>
    /\ gwResult = [kind |-> "pending", provider |-> NoProvider, error |-> NoError]

GwInit ==
    /\ gwCall \in GwCalls
    /\ gwPc = "called"
    /\ gwProvider = NoProvider
    /\ gwEntered = <<>>
    /\ gwResult = [kind |-> "pending", provider |-> NoProvider, error |-> NoError]

\* a direct call getProvider(name) returns or throws
GetProviderReturns ==
    /\ gwPc = "called"
    /\ gwCall.fn = "getProvider"
    /\ LET got == getProvider(gwCall.arg.val) IN
       /\ gwProvider' = got.provider
       /\ gwResult' = [kind |-> got.kind, provider |-> got.provider,
                       error |-> IF got.kind = "throw" THEN got.error ELSE NoError]
    /\ gwPc' = "done"
    /\ UNCHANGED <<gwCall, gwEntered>>
    /\ UNCHANGED OutsideGateway

\* first statement of a unified function:
\* const provider = getProvider(options.repoProvider || 'github')
GatewaySelects ==
    /\ gwPc = "called"
    /\ gwCall.fn \in ProviderOps
    /\ LET got == getProvider(OrGithub(gwCall.arg)) IN
       IF got.kind = "throw"
       THEN /\ gwResult' = [kind |-> "throw", provider |-> NoProvider,
                            error |-> got.error]
            /\ gwPc' = "done"
            /\ UNCHANGED gwProvider
       ELSE /\ gwProvider' = got.provider
            /\ gwPc' = "selected"
            /\ UNCHANGED gwResult
    /\ UNCHANGED <<gwCall, gwEntered>>
    /\ UNCHANGED OutsideGateway

\* second statement of a unified function: return provider.fn(...), which
\* enters the adapter's function, or fails when the value selected has no
\* such method
GatewayDelegates ==
    /\ gwPc = "selected"
    /\ IF gwCall.fn \in gwProvider.ops
       THEN /\ gwEntered' = Append(gwEntered,
                                   [adapter |-> gwProvider.name, fn |-> gwCall.fn])
            /\ gwPc' = "delegated"
            /\ UNCHANGED gwResult
       ELSE /\ gwResult' = [kind |-> "throw", provider |-> gwProvider,
                            error |-> NotAFunctionError(gwCall.fn)]
            /\ gwPc' = "done"
            /\ UNCHANGED gwEntered
    /\ UNCHANGED <<gwCall, gwProvider>>
    /\ UNCHANGED OutsideGateway

\* the adapter's function settles, and with it the unified function
AdapterSettles ==
    /\ gwPc = "delegated"
    /\ \E kind \in {"return", "throw"} :
          gwResult' = [kind |-> kind, provider |-> gwProvider,
                       error |-> IF kind = "throw"
                                 THEN AdapterError(gwProvider.name, gwCall.fn)
                                 ELSE NoError]
    /\ gwPc' = "done"
    /\ UNCHANGED <<gwCall, gwProvider, gwEntered>>
    /\ UNCHANGED OutsideGateway

--------------------------------------------------------------------------
(* Outcomes of the adapters and of the collaborators, as performRelease sees them *)

\* gitlab.hasTagOnGitLab: every failure is caught and answered false
hasTagOnGitLab == BOOLEAN
\* github.hasTagOnGitHub: hasTag(tag, config) -> bool
hasTagOnGitHub == BOOLEAN

hasTagOutcomes(adapter) ==
    IF adapter = "gitlab" THEN hasTagOnGitLab ELSE hasTagOnGitHub

\* gitlab.sendRelease: the write request (or reading res._links) may throw
sendReleaseOnGitLab == {"ok", "error"}
\* github.sendRelease: a failed network call surfaces as an error
sendReleaseOnGitHub == {"ok", "error"}

sendReleaseOutcomes(adapter) ==
    IF adapter = "gitlab" THEN sendReleaseOnGitLab ELSE sendReleaseOnGitHub

\* gitlab.uploadAssets after hasTagOnGitLab answered true in the same process:
\* the project id is cached, and glob, read, upload and description update
\* are each wrapped in try/catch
uploadAssetsOnGitLab == {"ok"}
\* github.uploadAssets: per-asset failures are never propagated
uploadAssetsOnGitHub == {"ok"}

uploadAssetsOutcomes(adapter) ==
    IF adapter = "gitlab" THEN uploadAssetsOnGitLab ELSE uploadAssetsOnGitHub

\* git.isRepoShallow: isShallowClone() -> bool
isRepoShallow(repo) == repo.shallow

\* fs.writeFile(path, data): no file can be created at the empty path
writeFileOutcomes(path) == IF path = "" THEN {"error"} ELSE {"ok", "error"}

WriteError(path) ==
    [name |-> "SystemError", message |-> "cannot write " \o path]


--------------------------------------------------------------------------
(* release.ts: the ReleaseContext, results and errors *)

\* rendered markdown, as a sequence of text pieces; "&nbsp;" is the entity
\* sanitizeMarkdown strips for display
Markdowns == {<<"## Features">>, <<"- fix", "&nbsp;", "by author">>}

sanitizeMarkdown(md) == SelectSeq(md, LAMBDA piece : piece # "&nbsp;")

CommitLists == {<<>>, <<"c1">>}

getProviderName(provider) ==
    IF provider = Str("gitlab") THEN "GitLab" ELSE "GitHub"

getTokenEnvName(provider) ==
    IF provider = Str("gitlab")
    THEN "GITLAB_TOKEN or GITLAB_PRIVATE_TOKEN"
    ELSE "GITHUB_TOKEN or GITHUB_TOKEN_PATH"

getMissingTokenMessage(provider, tokenEnvName) ==
    [text |-> "No token found, specify it via env. Release skipped.",
     providerName |-> getProviderName(provider),
     subject |-> tokenEnvName]

MissingTagMessage(config) ==
    [text |-> "Current ref is not available as tags. Release skipped.",
     providerName |-> getProviderName(config.repoProvider),
     subject |-> config.to]

ShallowRepoMessage ==
    [text |-> "The repo seems to be clone shallowly",
     providerName |-> "",
     subject |-> ""]

\* buildReleaseUrl: the provider's "new release" page, prefilled
buildReleaseUrl(config, md) ==
    [page |-> IF config.repoProvider = Str("gitlab")
              THEN "/-/releases/new" ELSE "/releases/new",
     ref |-> config.to,
     body |-> md]

\* buildCompareUrl
buildCompareUrl(config) ==
    [page |-> IF config.repoProvider = Str("gitlab")
              THEN "/-/compare/" ELSE "/compare/",
     ref |-> config.to,
     body |-> <<>>]

\* prepareRelease, given what generate returns
prepareRelease(config, md, commits) ==
    [config |-> config,
     md |-> md,
     commits |-> commits,
     webUrl |-> buildReleaseUrl(config, md),
     compareUrl |-> buildCompareUrl(config)]

\* new ReleaseExecutionError(code, message, details)
ReleaseExecutionError(code, message, details) ==
    [name |-> "ReleaseExecutionError",
     code |-> code,
     message |-> message,
     details |-> details]

MissingTokenError(ctx) ==
    LET tokenEnvName == getTokenEnvName(ctx.config.repoProvider) IN
    ReleaseExecutionError(
        "MISSING_TOKEN",
        getMissingTokenMessage(ctx.config.repoProvider, tokenEnvName),
        [webUrl |-> ctx.webUrl,
         tokenEnvName |-> Str(tokenEnvName),
         compareUrl |-> ctx.compareUrl])

MissingTagError(ctx) ==
    ReleaseExecutionError(
        "MISSING_TAG",
        MissingTagMessage(ctx.config),
        [webUrl |-> ctx.webUrl,
         tokenEnvName |-> Undefined,
         compareUrl |-> ctx.compareUrl])

ShallowRepoError(ctx) ==
    ReleaseExecutionError(
        "SHALLOW_REPO",
        ShallowRepoMessage,
        [webUrl |-> ctx.webUrl,
         tokenEnvName |-> Undefined,
         compareUrl |-> ctx.compareUrl])

\* ReleaseResult
ReleaseResult(outcome, outputPath, uploadedAssets) ==
    [outcome |-> outcome,
     outputPath |-> outputPath,
     uploadedAssets |-> uploadedAssets]

Pending == [kind |-> "pending"]
Returned(value) == [kind |-> "return", value |-> value]
Thrown(error) == [kind |-> "throw", value |-> error]

\* a ?? b
NullishCoalesce(a, b) == IF a.type = "undefined" THEN b ELSE a


--------------------------------------------------------------------------
(* release.ts: performRelease *)

FirstStep_OutputBeforeDry(ctx) ==
    IF ctx.config.output.type = "string" THEN "writeFile"
    ELSE IF ctx.config.dry THEN "dry-run"
    ELSE IF ~Truthy(ctx.config.token) THEN "missing-token"
    ELSE "hasTag"

FirstStep_TokenBeforeOutput(ctx) ==
    IF ctx.config.dry THEN "dry-run"
    ELSE IF ~Truthy(ctx.config.token) THEN "missing-token"
    ELSE IF ctx.config.output.type = "string" THEN "writeFile"
    ELSE "hasTag"

FirstStep_TagBeforeToken(ctx) ==
    IF ctx.config.dry THEN "dry-run"
    ELSE IF ctx.config.output.type = "string" THEN "writeFile"
    ELSE "hasTag"

\* the synchronous prefix of performRelease, up to its first await or exit
FirstStep(ctx) ==
    IF ctx.config.dry THEN "dry-run"
    ELSE IF ctx.config.output.type = "string" THEN "writeFile"
    ELSE IF ~Truthy(ctx.config.token) THEN "missing-token"
    ELSE "hasTag"

WrittenData_Sanitized(ctx) == sanitizeMarkdown(ctx.md)
\* second argument of fs.writeFile
WrittenData(ctx) == ctx.md

AfterHasTag_IgnoreResult(ctx, hasTargetTag) ==
    IF ctx.commits = <<>> THEN "isRepoShallow" ELSE "sendRelease"

\* what follows the settled tag check
AfterHasTag(ctx, hasTargetTag) ==
    IF ~hasTargetTag THEN "missing-tag"
    ELSE IF ctx.commits = <<>> THEN "isRepoShallow"
    ELSE "sendRelease"

AfterIsRepoShallow_Ignore(shallow) == "sendRelease"
\* what follows the settled shallow-clone check
AfterIsRepoShallow(shallow) ==
    IF shallow THEN "shallow-repo" ELSE "sendRelease"

\* options.assets ?? config.assets
AssetsInput(ctx, opts) == NullishCoalesce(opts.assets, ctx.config.assets)

ShouldUpload_Truthy(assetsInput) == AssetsTruthy(assetsInput)
\* assetsInput && normalizedAssets.length > 0
ShouldUpload(assetsInput) ==
    AssetsTruthy(assetsInput) /\ Len(normalizeAssets(assetsInput)) > 0

UploadedAssets_Unreported(list) == NoAssets

\* normalizedAssets.length > 0 ? normalizedAssets : undefined
UploadedAssets(list) ==
    IF Len(list) > 0 THEN AssetArray(list) ELSE NoAssets

AfterSendRelease_FailureIgnored(outcome, assetsInput) ==
    IF ShouldUpload(assetsInput) THEN "uploadAssets" ELSE "released"

\* what follows await sendRelease(config, md): its rejection leaves
\* performRelease, else the assets are uploaded or the result is returned
AfterSendRelease(outcome, assetsInput) ==
    IF outcome = "error" THEN "throw"
    ELSE IF ShouldUpload(assetsInput) THEN "uploadAssets"
    ELSE "released"

Call(op, arg) == [op |-> op, arg |-> arg]

Settle(op, outcome) == settled' = Append(settled, [op |-> op, outcome |-> outcome])

BoolText(b) == IF b THEN "true" ELSE "false"

Finish_NoReturn(r) ==
    /\ result' = r
    /\ pc' = pc

\* return / throw: the promise settles and the function is left
Finish(r) ==
    /\ result' = r
    /\ pc' = "done"

\* entry of performRelease, up to the first await, return or throw
Start ==
    /\ pc = "prepared"
    /\ LET step == FirstStep(context) IN
       /\ \/ /\ step = "dry-run"
             /\ Finish(Returned(ReleaseResult("dry-run", Undefined, NoAssets)))
             /\ UNCHANGED <<calls, writes>>
          \/ /\ step = "writeFile"
             /\ writes' = Append(writes, [path |-> context.config.output.val,
                                          data |-> WrittenData(context),
                                          encoding |-> "utf-8"])
             /\ pc' = "writeFile"
             /\ UNCHANGED <<calls, result>>
          \/ /\ step = "missing-token"
             /\ Finish(Thrown(MissingTokenError(context)))
             /\ UNCHANGED <<calls, writes>>
          \/ /\ step = "hasTag"
             /\ calls' = Append(calls, Call("hasTag", context.config.to))
             /\ pc' = "hasTag"
             /\ UNCHANGED <<writes, result>>
    /\ UNCHANGED <<context, options, clone, settled, stored>>
    /\ UNCHANGED OutsideRun

\* await fs.writeFile(config.output, md, 'utf-8') settles
WriteFileSettles ==
    /\ pc = "writeFile"
    /\ LET w == writes[Len(writes)] IN
       \E outcome \in writeFileOutcomes(w.path) :
          /\ Settle("writeFile", outcome)
          /\ IF outcome = "ok"
             THEN /\ stored' = stored \cup {[path |-> w.path, data |-> w.data]}
                  /\ Finish(Returned(ReleaseResult("output-saved",
                                                   context.config.output,
                                                   NoAssets)))
             ELSE /\ stored' = stored
                  /\ Finish(Thrown(WriteError(w.path)))
    /\ UNCHANGED <<context, options, clone, calls, writes>>
    /\ UNCHANGED OutsideRun

\* the statements between two awaits that lead to sendRelease or to a halt
Proceed(step) ==
    \/ /\ step = "missing-tag"
       /\ Finish(Thrown(MissingTagError(context)))
       /\ UNCHANGED calls
    \/ /\ step = "shallow-repo"
       /\ Finish(Thrown(ShallowRepoError(context)))
       /\ UNCHANGED calls
    \/ /\ step = "isRepoShallow"
       /\ calls' = Append(calls, Call("isRepoShallow", ""))
       /\ pc' = "isRepoShallow"
       /\ UNCHANGED result
    \/ /\ step = "sendRelease"
       /\ calls' = Append(calls, Call("sendRelease", context.md))
       /\ pc' = "sendRelease"
       /\ UNCHANGED result

\* await hasTag(config.to, config) settles
HasTagSettles ==
    /\ pc = "hasTag"
    /\ LET sel == GatewaySelect("hasTag", context.config.repoProvider) IN
       IF sel.kind = "throw"
       THEN /\ Settle("hasTag", "throw")
            /\ Finish(Thrown(sel.error))
            /\ UNCHANGED calls
       ELSE \E hasTargetTag \in hasTagOutcomes(sel.adapter) :
               /\ Settle("hasTag", BoolText(hasTargetTag))
               /\ Proceed(AfterHasTag(context, hasTargetTag))
    /\ UNCHANGED <<context, options, clone, writes, stored>>
    /\ UNCHANGED OutsideRun

\* await isRepoShallow() settles
IsRepoShallowSettles ==
    /\ pc = "isRepoShallow"
    /\ LET shallow == isRepoShallow(clone) IN
          /\ Settle("isRepoShallow", BoolText(shallow))
          /\ Proceed(AfterIsRepoShallow(shallow))
    /\ UNCHANGED <<context, options, clone, writes, stored>>
    /\ UNCHANGED OutsideRun

\* await sendRelease(config, md) settles
SendReleaseSettles ==
    /\ pc = "sendRelease"
    /\ LET sel == GatewaySelect("sendRelease", context.config.repoProvider)
           assetsInput == AssetsInput(context, options)
           normalizedAssets == normalizeAssets(assetsInput)
       IN
       IF sel.kind = "throw"
       THEN /\ Settle("sendRelease", "throw")
            /\ Finish(Thrown(sel.error))
            /\ UNCHANGED calls
       ELSE \E outcome \in sendReleaseOutcomes(sel.adapter) :
               /\ Settle("sendRelease", outcome)
               /\ LET step == AfterSendRelease(outcome, assetsInput) IN
                  IF step = "throw"
                  THEN /\ Finish(Thrown(AdapterError(sel.adapter, "sendRelease")))
                       /\ UNCHANGED calls
                  ELSE IF step = "uploadAssets"
                  THEN /\ calls' = Append(calls, Call("uploadAssets", assetsInput))
                       /\ pc' = "uploadAssets"
                       /\ UNCHANGED result
                  ELSE /\ Finish(Returned(ReleaseResult(
                                    "released", Undefined,
                                    UploadedAssets(normalizedAssets))))
                       /\ UNCHANGED calls
    /\ UNCHANGED <<context, options, clone, writes, stored>>
    /\ UNCHANGED OutsideRun

\* await uploadAssets(config, assetsInput) settles
UploadAssetsSettles ==
    /\ pc = "uploadAssets"
    /\ LET sel == GatewaySelect("uploadAssets", context.config.repoProvider)
           normalizedAssets == normalizeAssets(AssetsInput(context, options))
       IN
       IF sel.kind = "throw"
       THEN /\ Settle("uploadAssets", "throw")
            /\ Finish(Thrown(sel.error))
       ELSE \E outcome \in uploadAssetsOutcomes(sel.adapter) :
               /\ Settle("uploadAssets", outcome)
               /\ Finish(Returned(ReleaseResult(
                            "released", Undefined,
                            UploadedAssets(normalizedAssets))))
    /\ UNCHANGED <<context, options, clone, calls, writes, stored>>
    /\ UNCHANGED OutsideRun

--------------------------------------------------------------------------
(* gitlab.ts: resolveAuthors *)

\* A name or a login is tested against patterns and compared by
\* localeCompare: it is a sequence of one-character strings.  An email is
\* only tested for truth and compared for identity: it is a string.

\* an AuthorInfo without login (the property is absent: undefined)
NoLogin == [type |-> "undefined", val |-> <<>>]
Login(chars) == [type |-> "string", val |-> chars]

\* truthiness of info.login: undefined and the empty string are falsy
LoginTruthy(login) == login.type = "string" /\ login.val # <<>>

\* the lower-case form of a character, as the /i flag of a pattern folds it
CaseFold(c) ==
    CASE c = "A" -> "a"
      [] c = "B" -> "b"
      [] c = "D" -> "d"
      [] c = "O" -> "o"
      [] c = "T" -> "t"
      [] OTHER -> c

\* re.test(name) for a pattern that is a literal, case-sensitive
TestLiteral(pattern, name) ==
    \E i \in 0..(Len(name) - Len(pattern)) :
        \A j \in 1..Len(pattern) : name[i + j] = pattern[j]

\* re.test(name) for a pattern that is a literal with the /i flag
TestIgnoreCase(pattern, name) ==
    \E i \in 0..(Len(name) - Len(pattern)) :
        \A j \in 1..Len(pattern) : CaseFold(name[i + j]) = pattern[j]

\* /\[bot\]/i, /dependabot/i, /\(bot\)/i
excludeAuthors ==
    {<<"[", "b", "o", "t", "]">>,
     <<"d", "e", "p", "e", "n", "d", "a", "b", "o", "t">>,
     <<"(", "b", "o", "t", ")">>}

IsExcluded_CaseSensitive(name) ==
    \E re \in excludeAuthors : TestLiteral(re, name)

\* excludeAuthors.some(re => re.test(a.name))
IsExcluded(name) ==
    \E re \in excludeAuthors : TestIgnoreCase(re, name)

\* !a.email || !a.name
LacksField(a) == a.email = "" \/ a.name = <<>>

IsCredited_EveryPosition(idx) == TRUE

IsCredited_UpToSecond(idx) == idx <= 1

\* idx === 0: only the first author of a commit is credited with it
IsCredited(idx) == idx = 0

\* { commits: [], name: a.name, email: a.email }
NewAuthorInfo(a) ==
    [commits |-> <<>>, name |-> a.name, email |-> a.email, login |-> NoLogin]

\* state of the forEach over the commits: the objects created so far, the
\* Map, and resolvedAuthors of every commit as addresses of objects
EmptyPass(n) ==
    [heap |-> <<>>, map |-> <<>>, resolved |-> [i \in 1..n |-> <<>>]]

\* map.has(email) / map.get(email); the Map is a sequence of [key, value]
\* entries in insertion order
MapHas(map, email) == \E i \in 1..Len(map) : map[i].key = email
MapGet(map, email) ==
    map[CHOOSE i \in 1..Len(map) : map[i].key = email].value

\* the callback of commit.authors.map for the author at index idx (from 0)
\* of the commit at position ci; null results are filtered out
VisitAuthor(st, ci, commit, idx) ==
    LET a == commit.authors[idx + 1]
    IN
    IF LacksField(a) THEN st
    ELSE IF IsExcluded(a.name) THEN st
    ELSE LET created ==
                 IF MapHas(st.map, a.email) THEN st
                 ELSE [st EXCEPT !.heap = Append(@, NewAuthorInfo(a)),
                                 !.map = Append(@, [key |-> a.email,
                                                    value |-> Len(st.heap) + 1])]
             info == MapGet(created.map, a.email)
             credited ==
                 IF IsCredited(idx)
                 THEN [created EXCEPT !.heap[info].commits =
                                          Append(@, commit.shortHash)]
                 ELSE created
         IN [credited EXCEPT !.resolved[ci] = Append(@, info)]

\* commit.authors.map(...) from index idx on
RECURSIVE VisitAuthors(_, _, _, _)
VisitAuthors(st, ci, commit, idx) ==
    IF idx >= Len(commit.authors) THEN st
    ELSE VisitAuthors(VisitAuthor(st, ci, commit, idx), ci, commit, idx + 1)

\* commits.forEach(...) from position ci on
RECURSIVE VisitCommits(_, _, _)
VisitCommits(st, commits, ci) ==
    IF ci > Len(commits) THEN st
    ELSE VisitCommits(VisitAuthors(st, ci, commits[ci], 0), commits, ci + 1)

\* Array.from(map.values()): the objects of the Map in insertion order
MapValues(map) == [i \in 1..Len(map) |-> map[i].value]

\* the characters localeCompare meets here, in the order of the root
\* collation: punctuation before letters, letters in alphabetical order
CollationOrder ==
    <<"(", ")", "[", "]", "a", "b", "d", "e", "m", "n", "o", "p", "t", "y">>

\* primary weight of a character: its letter, whatever its case
Primary(c) ==
    CHOOSE i \in 1..Len(CollationOrder) : CollationOrder[i] = CaseFold(c)

IsUpperCase(c) == CaseFold(c) # c

\* comparison by primary weights, a proper prefix first
RECURSIVE ComparePrimary(_, _)
ComparePrimary(a, b) ==
    IF a = <<>> /\ b = <<>> THEN 0
    ELSE IF a = <<>> THEN -1
    ELSE IF b = <<>> THEN 1
    ELSE IF Primary(Head(a)) < Primary(Head(b)) THEN -1
    ELSE IF Primary(Head(a)) > Primary(Head(b)) THEN 1
    ELSE ComparePrimary(Tail(a), Tail(b))

\* comparison by case of two strings with the same letters: at the first
\* difference the lower-case letter comes first
RECURSIVE CompareCase(_, _)
CompareCase(a, b) ==
    IF a = <<>> \/ b = <<>> THEN 0
    ELSE IF IsUpperCase(Head(a)) = IsUpperCase(Head(b))
         THEN CompareCase(Tail(a), Tail(b))
    ELSE IF IsUpperCase(Head(b)) THEN -1
    ELSE 1

\* a.localeCompare(b): negative, zero or positive
localeCompare(a, b) ==
    LET p == ComparePrimary(a, b)
    IN IF p # 0 THEN p ELSE CompareCase(a, b)

\* a.login || a.name
SortKey(info) == IF LoginTruthy(info.login) THEN info.login.val ELSE info.name

\* (a, b) => (a.login || a.name).localeCompare(b.login || b.name)
CompareAuthors(a, b) == localeCompare(SortKey(a), SortKey(b))

\* place of x in a sorted list: behind every element that is not after it
RECURSIVE InsertSorted(_, _, _)
InsertSorted(sorted, x, heap) ==
    IF sorted = <<>> THEN <<x>>
    ELSE IF CompareAuthors(heap[Head(sorted)], heap[x]) <= 0
         THEN <<Head(sorted)>> \o InsertSorted(Tail(sorted), x, heap)
    ELSE <<x>> \o sorted

RECURSIVE SortFrom(_, _, _)
SortFrom(sorted, rest, heap) ==
    IF rest = <<>> THEN sorted
    ELSE SortFrom(InsertSorted(sorted, Head(rest), heap), Tail(rest), heap)

SortAuthors_Unsorted(list, heap) == list

\* resolved.sort(...): Array.prototype.sort is stable
SortAuthors(list, heap) == SortFrom(<<>>, list, heap)

\* the filter callback, with the two sets it closes over
RECURSIVE FilterFrom(_, _, _, _)
FilterFrom(list, heap, loginSet, nameSet) ==
    IF list = <<>> THEN <<>>
    ELSE LET i == heap[Head(list)]
         IN
         IF LoginTruthy(i.login) /\ i.login.val \in loginSet
         THEN FilterFrom(Tail(list), heap, loginSet, nameSet)
         ELSE IF LoginTruthy(i.login)
              THEN <<Head(list)>> \o
                   FilterFrom(Tail(list), heap, loginSet \cup {i.login.val},
                              nameSet)
         ELSE IF i.name \in nameSet
              THEN FilterFrom(Tail(list), heap, loginSet, nameSet)
         ELSE <<Head(list)>> \o
              FilterFrom(Tail(list), heap, loginSet, nameSet \cup {i.name})

FilterAuthors_KeepAll(list, heap) == list

\* .filter(...) with loginSet and nameSet empty at the start
FilterAuthors(list, heap) == FilterFrom(list, heap, {}, {})

\* the module-level cache: undefined, or the number of the project
NoProjectId == [type |-> "undefined", val |-> 0]
ProjectIdNumber(n) == [type |-> "number", val |-> n]

\* typeof localProjectId === 'number' && !Number.isNaN(localProjectId)
IsCached(cache) == cache.type = "number"

\* the id GitLab answers for options.releaseRepo
FetchedProjectId == ProjectIdNumber(7)

FirstLookupStep_IgnoreToken(info, token) ==
    IF LoginTruthy(info.login) THEN "done" ELSE "users"

\* resolveAuthorInfo up to its first await: "users" when the search by
\* email is sent, "done" when it returns at once
FirstLookupStep(info, token) ==
    IF LoginTruthy(info.login) THEN "done"
    ELSE IF ~Truthy(token) THEN "done"
    ELSE "users"

\* resolveAuthorInfo after the search by email: done with a login or
\* without commits, else the commit detail, behind getProjectId
AfterUserSearch(info, cache) ==
    IF LoginTruthy(info.login) THEN "done"
    ELSE IF info.commits = <<>> THEN "done"
    ELSE IF IsCached(cache) THEN "commit"
    ELSE "project"

\* users?search=<email> settles: the request fails, or answers a list in
\* which data.find(...) finds no user or the user with this username
UserSearchOutcomes ==
    {[failed |-> TRUE, username |-> NoLogin]}
    \cup {[failed |-> FALSE, username |-> u] :
            u \in {NoLogin, Login(<<"a", "m", "y">>),
                           Login(<<"B", "o", "b">>)}}

\* info.login after the search: assigned only from a user that was found
LoginAfterUserSearch(login, outcome) ==
    IF outcome.failed \/ outcome.username = NoLogin THEN login
    ELSE outcome.username

\* projects/<repo> settles: the request fails or answers no numeric id, or
\* answers the id
ProjectOutcomes == {"error", "ok"}

\* repository/commits/<hash> settles: the request fails, or answers a
\* commit with or without author_name
CommitDetailOutcomes ==
    {[failed |-> TRUE, author_name |-> NoLogin]}
    \cup {[failed |-> FALSE, author_name |-> n] :
            n \in {NoLogin, Login(<<"a", "m", "y">>),
                           Login(<<"B", "o", "b">>)}}

\* info.login = data.author_name, unless the request failed
LoginAfterCommitDetail(login, outcome) ==
    IF outcome.failed THEN login ELSE outcome.author_name

Catch_Rethrown(next) == "rejected"

\* catch {}: the error is dropped and resolveAuthorInfo goes on
Catch(next) == next

FirstCommit_Last(commits) == commits[Len(commits)]

\* info.commits[0]
FirstCommit(commits) == commits[1]

\* the commit the request names: repository/commits/${info.commits[0]}
CommitOf(kind, info) ==
    IF kind = "commit" THEN FirstCommit(auHeap[info].commits) ELSE ""

\* a request under way: its kind, the object it is sent for, the commit it
\* names, and later its outcome and the username or author_name answered
Request(kind, info) ==
    [kind |-> kind, info |-> info, commit |-> CommitOf(kind, info),
     outcome |-> "pending", answer |-> NoLogin]

\* the requests the calls of resolveAuthorInfo send before their first await
FirstRequests(lookup) ==
    LET waiting == SelectSeq([i \in 1..Len(lookup) |-> i],
                             LAMBDA i : lookup[i] = "users")
    IN [k \in 1..Len(waiting) |-> Request("users", waiting[k])]

\* the request of resolveAuthorInfo(info) that has not settled
PendingRequest(info) ==
    CHOOSE k \in 1..Len(auRequests) :
        auRequests[k].info = info /\ auRequests[k].outcome = "pending"

\* the log after the pending request of info settled and, when the call
\* goes on to a request, that request was sent
RequestsAfter(info, outcome, answer, next) ==
    LET settledLog == [auRequests EXCEPT ![PendingRequest(info)].outcome = outcome,
                                         ![PendingRequest(info)].answer = answer]
    IN IF next \in {"project", "commit"}
       THEN Append(settledLog, Request(next, info))
       ELSE settledLog

FailText(failed) == IF failed THEN "error" ELSE "ok"

\* resolveAuthors from its call to the await of Promise.all: the Map is
\* built and every resolveAuthorInfo runs to its first await
ResolveAuthorsCalled ==
    /\ auPc = "called"
    /\ LET pass == VisitCommits(EmptyPass(Len(auCommits)), auCommits, 1)
           lookup == [i \in 1..Len(pass.heap) |->
                         FirstLookupStep(pass.heap[i], auToken)]
       IN /\ auHeap' = pass.heap
          /\ auMap' = pass.map
          /\ auResolved' = pass.resolved
          /\ auLookup' = lookup
          /\ auRequests' = FirstRequests(lookup)
    /\ auPc' = "resolving"
    /\ UNCHANGED <<auCommits, auToken, auResult, localProjectId>>
    /\ UNCHANGED OutsideAuthors

\* the search by email of one resolveAuthorInfo settles
UserSearchSettles ==
    /\ auPc = "resolving"
    /\ \E info \in DOMAIN auLookup, outcome \in UserSearchOutcomes :
          /\ auLookup[info] = "users"
          /\ LET login == LoginAfterUserSearch(auHeap[info].login, outcome)
                 heap == [auHeap EXCEPT ![info].login = login]
                 after == AfterUserSearch(heap[info], localProjectId)
                 next == IF outcome.failed THEN Catch(after) ELSE after
             IN /\ auHeap' = heap
                /\ auLookup' = [auLookup EXCEPT ![info] = next]
                /\ auRequests' =
                      RequestsAfter(info, FailText(outcome.failed),
                                    outcome.username, next)
    /\ UNCHANGED <<auCommits, auToken, auPc, auMap, auResolved, auResult,
                   localProjectId>>
    /\ UNCHANGED OutsideAuthors

\* the request of getProjectId settles; a failure leaves the try block
ProjectIdSettles ==
    /\ auPc = "resolving"
    /\ \E info \in DOMAIN auLookup, outcome \in ProjectOutcomes :
          /\ auLookup[info] = "project"
          /\ LET next == IF outcome = "ok" THEN "commit" ELSE Catch("done")
             IN /\ auLookup' = [auLookup EXCEPT ![info] = next]
                /\ auRequests' = RequestsAfter(info, outcome, NoLogin, next)
          /\ localProjectId' =
                IF outcome = "ok" THEN FetchedProjectId ELSE localProjectId
    /\ UNCHANGED <<auCommits, auToken, auPc, auHeap, auMap, auResolved,
                   auResult>>
    /\ UNCHANGED OutsideAuthors

\* the commit detail of info.commits[0] settles
CommitDetailSettles ==
    /\ auPc = "resolving"
    /\ \E info \in DOMAIN auLookup, outcome \in CommitDetailOutcomes :
          /\ auLookup[info] = "commit"
          /\ LET next == IF outcome.failed THEN Catch("done") ELSE "done"
             IN /\ auLookup' = [auLookup EXCEPT ![info] = next]
                /\ auRequests' =
                      RequestsAfter(info, FailText(outcome.failed),
                                    outcome.author_name, next)
          /\ auHeap' = [auHeap EXCEPT ![info].login =
                           LoginAfterCommitDetail(@, outcome)]
    /\ UNCHANGED <<auCommits, auToken, auPc, auMap, auResolved, auResult,
                   localProjectId>>
    /\ UNCHANGED OutsideAuthors

\* the commits of the records of a list, one record after the other
RECURSIVE CommitsOfAll(_, _)
CommitsOfAll(heap, list) ==
    IF list = <<>> THEN <<>>
    ELSE heap[Head(list)].commits \o CommitsOfAll(heap, Tail(list))

RecordsAfterFilter_Merged(heap, kept) ==
    LET survivors == {kept[k] : k \in DOMAIN kept}
        droppedFor(s) ==
            SelectSeq([i \in DOMAIN heap |-> i],
                      LAMBDA d : /\ d \notin survivors
                                 /\ LoginTruthy(heap[d].login) =
                                       LoginTruthy(heap[s].login)
                                 /\ SortKey(heap[d]) = SortKey(heap[s]))
    IN [i \in DOMAIN heap |->
           IF i \in survivors
           THEN [heap[i] EXCEPT !.commits = @ \o CommitsOfAll(heap, droppedFor(i))]
           ELSE heap[i]]

\* the filter callback only reads i.login and i.name and answers a
\* boolean: the records are as they were, kept or dropped
RecordsAfterFilter(heap, kept) == heap

AllSettled_FirstSettled(lookup) ==
    \A info \in DOMAIN lookup :
        info > 1 \/ lookup[info] \in {"done", "rejected"}

\* await Promise.all(...): every resolveAuthorInfo call has settled
AllSettled(lookup) ==
    \A info \in DOMAIN lookup : lookup[info] \in {"done", "rejected"}

\* Promise.all settles: it rejects with the first rejection, else the
\* objects are sorted and filtered and the list is returned
ResolveAuthorsReturns ==
    /\ auPc = "resolving"
    /\ AllSettled(auLookup)
    /\ LET list == FilterAuthors(SortAuthors(MapValues(auMap), auHeap), auHeap)
       IN IF \E info \in DOMAIN auLookup : auLookup[info] = "rejected"
          THEN /\ auResult' = Thrown([name |-> "FetchError",
                                      message |-> "request failed"])
               /\ auHeap' = auHeap
          ELSE /\ auResult' = Returned(list)
               /\ auHeap' = RecordsAfterFilter(auHeap, list)
    /\ auPc' = "done"
    /\ UNCHANGED <<auCommits, auToken, auMap, auResolved, auLookup,
                   auRequests, localProjectId>>
    /\ UNCHANGED OutsideAuthors

\* no resolveAuthors call under way
AuthorsIdle ==
    /\ auCommits = <<>>
    /\ auToken = Undefined
    /\ auPc = "idle"
    /\ auHeap = <<>>
    /\ auMap = <<>>
    /\ auResolved = <<>>
    /\ auLookup = <<>>
    /\ auRequests = <<>>
    /\ auResult = Pending

\* the cache as a process starts with it when GITLAB_PROJECT_ID is unset
CacheIdle == localProjectId = NoProjectId

--------------------------------------------------------------------------
(* gitlab.ts: sendRelease *)

\* options.to of the calls
ReleaseTag == "v1.0.0"

\* `${baseUrlApi}/projects/${projectId}/releases`
ReleasesUrl == "/projects/7/releases"
\* `${baseUrlApi}/projects/${projectId}/releases/${options.to}`
ReleaseUrl(tag) == "/projects/7/releases/" \o tag

\* GET of the release of a tag settles: GitLab answers the release when it
\* has one and 404 when it has none, or the request fails for another
\* reason (network, 401, 429, 5xx)
ExistingReleaseOutcomes(exists) ==
    IF exists THEN {"release", "error"} ELSE {"error"}

\* method and url after the try block: PUT to the release of the tag when
\* the GET answered a release, POST to the collection in every other case
WriteRequest(outcome, tag) ==
    IF outcome = "release"
    THEN [method |-> "PUT", url |-> ReleaseUrl(tag)]
    ELSE [method |-> "POST", url |-> ReleasesUrl]

\* the write settles: GitLab refuses to create a release for a tag that
\* has one (409) and to update one that does not exist (404)
WriteOutcomes(method, exists) ==
    IF (method = "POST") = exists THEN {"error"} ELSE {"ok", "error"}

SrRequest(call, method, url, exists) ==
    [call |-> call, method |-> method, url |-> url, existed |-> exists,
     outcome |-> "pending"]

\* the log with the outcome of the request under way
SrSettled(outcome) ==
    [srRequests EXCEPT ![Len(srRequests)].outcome = outcome]

NoWrite == [method |-> "", url |-> ""]

\* sendRelease is called and runs to its first request: the project when
\* its id is not cached, else the release of the tag
SendReleaseCalled ==
    /\ srPc = "idle"
    /\ srCalls < MaxSendReleaseCalls
    /\ srCalls' = srCalls + 1
    /\ IF IsCached(localProjectId)
       THEN /\ srPc' = "existing"
            /\ srRequests' = Append(srRequests,
                  SrRequest(srCalls + 1, "GET", ReleaseUrl(ReleaseTag),
                            ReleaseTag \in glReleases))
       ELSE /\ srPc' = "project"
            /\ srRequests' = Append(srRequests,
                  SrRequest(srCalls + 1, "GET", "/projects/repo",
                            ReleaseTag \in glReleases))
    /\ UNCHANGED <<glReleases, srWrite, srResults, localProjectId>>
    /\ UNCHANGED OutsideSendRelease

\* the request of getProjectId settles; its failure is the failure of
\* sendRelease
SendReleaseProjectSettles ==
    /\ srPc = "project"
    /\ \E outcome \in ProjectOutcomes :
          IF outcome = "ok"
          THEN /\ localProjectId' = FetchedProjectId
               /\ srPc' = "existing"
               /\ srRequests' = Append(SrSettled("ok"),
                     SrRequest(srCalls, "GET", ReleaseUrl(ReleaseTag),
                               ReleaseTag \in glReleases))
               /\ UNCHANGED srResults
          ELSE /\ srPc' = "idle"
               /\ srRequests' = SrSettled("error")
               /\ srResults' = Append(srResults,
                     Thrown([name |-> "FetchError",
                             message |-> "project request failed"]))
               /\ UNCHANGED localProjectId
    /\ UNCHANGED <<glReleases, srCalls, srWrite>>
    /\ UNCHANGED OutsideSendRelease

\* the GET of the release of the tag settles and the write is sent
ExistingReleaseSettles ==
    /\ srPc = "existing"
    /\ \E outcome \in ExistingReleaseOutcomes(ReleaseTag \in glReleases) :
          LET write == WriteRequest(outcome, ReleaseTag)
          IN /\ srWrite' = write
             /\ srRequests' = Append(
                   SrSettled(IF outcome = "error" THEN "error" ELSE "ok"),
                   SrRequest(srCalls, write.method, write.url,
                             ReleaseTag \in glReleases))
    /\ srPc' = "write"
    /\ UNCHANGED <<glReleases, srCalls, srResults, localProjectId>>
    /\ UNCHANGED OutsideSendRelease

\* the write settles: sendRelease returns res._links.self, or fails as the
\* request fails
WriteReleaseSettles ==
    /\ srPc = "write"
    /\ \E outcome \in WriteOutcomes(srWrite.method, ReleaseTag \in glReleases) :
          /\ srRequests' = SrSettled(outcome)
          /\ IF outcome = "ok"
             THEN /\ glReleases' = glReleases \cup {ReleaseTag}
                  /\ srResults' = Append(srResults,
                                         Returned(ReleaseUrl(ReleaseTag)))
             ELSE /\ UNCHANGED glReleases
                  /\ srResults' = Append(srResults,
                        Thrown([name |-> "FetchError",
                                message |-> "write request failed"]))
    /\ srPc' = "idle"
    /\ srWrite' = NoWrite
    /\ UNCHANGED <<srCalls, localProjectId>>
    /\ UNCHANGED OutsideSendRelease

\* no sendRelease call made
SendReleaseIdle ==
    /\ glReleases = {}
    /\ srCalls = 0
    /\ srPc = "idle"
    /\ srWrite = NoWrite
    /\ srRequests = <<>>
    /\ srResults = <<>>

--------------------------------------------------------------------------
(* gitlab.ts: uploadAssets *)

AssetListOf_WholeItems(assets) ==
    IF assets.type = "string" THEN StringBranch(assets.val)
    ELSE IF assets.type = "array" THEN FilterBoolean(MapTrim(assets.val))
    ELSE <<>>

\* assetList: the fragments of a string, or of the strings of a list,
\* trimmed, the empty ones dropped
AssetListOf(assets) ==
    IF assets.type = "string" THEN StringBranch(assets.val)
    ELSE IF assets.type = "array" THEN ArrayBranch(assets.val)
    ELSE <<>>

\* the files a pattern can match: a wildcard two files, a name that file
FilesMatching(pattern) ==
    IF pattern = <<"*">> THEN << <<"f">>, <<"g">> >> ELSE <<pattern>>

\* glob(pattern) settles: it fails, or answers the files that match, of
\* which there may be none
GlobOutcomes(pattern) ==
    {[failed |-> TRUE, matches |-> <<>>],
     [failed |-> FALSE, matches |-> <<>>],
     [failed |-> FALSE, matches |-> FilesMatching(pattern)]}

ExpandedBy_DropUnmatched(pattern, outcome) ==
    IF outcome.failed THEN <<>> ELSE outcome.matches

\* what one turn of the expansion loop pushes to expandedAssets: the
\* matches, or the pattern itself when there is none or glob failed
ExpandedBy(pattern, outcome) ==
    IF outcome.failed THEN <<pattern>>
    ELSE IF outcome.matches # <<>> THEN outcome.matches
    ELSE <<pattern>>

\* where uploadAssets stands once the project id is known
BeginGlobs(list) ==
    IF list = <<>> THEN [pc |-> "done", index |-> 0]
    ELSE [pc |-> "glob", index |-> 1]

AfterFile_AlwaysRelease(index, expanded, links) ==
    IF index < Len(expanded) THEN [pc |-> "read", index |-> index + 1]
    ELSE [pc |-> "release", index |-> index]

\* where uploadAssets stands after the turn of the upload loop for the
\* path at index: the next path, or the release when a file was uploaded
AfterFile(index, expanded, links) ==
    IF index < Len(expanded) THEN [pc |-> "read", index |-> index + 1]
    ELSE IF links # <<>> THEN [pc |-> "release", index |-> index]
    ELSE [pc |-> "done", index |-> index]

CaughtFileError_Rethrown(index, expanded, links) ==
    [pc |-> "failed", index |-> index]

\* catch (error) of a read or an upload: the failure is printed and the
\* loop goes on
CaughtFileError(index, expanded, links) == AfterFile(index, expanded, links)

\* the promise of uploadAssets at a position
UploadResultAt(position) ==
    IF position = "done" THEN Returned(Undefined)
    ELSE IF position = "failed"
         THEN Thrown([name |-> "Error", message |-> "uploadAssets failed"])
    ELSE Pending

UpStep(step, path, outcome) ==
    [step |-> step, path |-> path, outcome |-> outcome]

\* uploadAssets is called: the project is requested when its id is not
\* cached, else assetList is built and the first pattern is expanded
UploadAssetsCalled ==
    /\ upPc = "called"
    /\ LET list == AssetListOf(upAssets)
           at == IF IsCached(localProjectId) THEN BeginGlobs(list)
                 ELSE [pc |-> "project", index |-> 0]
       IN /\ upList' = (IF IsCached(localProjectId) THEN list ELSE <<>>)
          /\ upPc' = at.pc
          /\ upIndex' = at.index
          /\ upResult' = UploadResultAt(at.pc)
    /\ UNCHANGED <<upAssets, upExpanded, upSteps, upLinks, upPut,
                   localProjectId>>
    /\ UNCHANGED OutsideUpload

\* the request of getProjectId settles; it is awaited outside every try
\* block, so its failure is the failure of uploadAssets
UploadProjectSettles ==
    /\ upPc = "project"
    /\ \E outcome \in ProjectOutcomes :
          LET list == AssetListOf(upAssets)
              at == IF outcome = "ok" THEN BeginGlobs(list)
                    ELSE [pc |-> "failed", index |-> 0]
          IN /\ upList' = (IF outcome = "ok" THEN list ELSE <<>>)
             /\ upPc' = at.pc
             /\ upIndex' = at.index
             /\ upResult' = UploadResultAt(at.pc)
             /\ upSteps' = Append(upSteps, UpStep("project", <<>>, outcome))
             /\ localProjectId' =
                   IF outcome = "ok" THEN FetchedProjectId ELSE localProjectId
    /\ UNCHANGED <<upAssets, upExpanded, upLinks, upPut>>
    /\ UNCHANGED OutsideUpload

\* glob settles for the pattern at upIndex; after the last pattern the
\* first path is read
GlobSettles ==
    /\ upPc = "glob"
    /\ \E outcome \in GlobOutcomes(upList[upIndex]) :
          LET expanded == upExpanded \o ExpandedBy(upList[upIndex], outcome)
              at == IF upIndex < Len(upList)
                    THEN [pc |-> "glob", index |-> upIndex + 1]
                    ELSE AfterFile(0, expanded, <<>>)
          IN /\ upExpanded' = expanded
             /\ upPc' = at.pc
             /\ upIndex' = at.index
             /\ upResult' = UploadResultAt(at.pc)
             /\ upSteps' = Append(upSteps,
                   UpStep("glob", upList[upIndex],
                          IF outcome.failed THEN "error"
                          ELSE IF outcome.matches = <<>> THEN "none"
                          ELSE "matched"))
    /\ UNCHANGED <<upAssets, upList, upLinks, upPut, localProjectId>>
    /\ UNCHANGED OutsideUpload

\* fs.readFile settles for the path at upIndex: the file is posted, or the
\* failure is caught and the loop goes on
ReadFileSettles ==
    /\ upPc = "read"
    /\ \E outcome \in {"ok", "error"} :
          LET at == IF outcome = "ok"
                    THEN [pc |-> "upload", index |-> upIndex]
                    ELSE CaughtFileError(upIndex, upExpanded, upLinks)
          IN /\ upPc' = at.pc
             /\ upIndex' = at.index
             /\ upResult' = UploadResultAt(at.pc)
             /\ upSteps' = Append(upSteps,
                   UpStep("read", upExpanded[upIndex], outcome))
    /\ UNCHANGED <<upAssets, upList, upExpanded, upLinks, upPut,
                   localProjectId>>
    /\ UNCHANGED OutsideUpload

\* the POST of the file at upIndex settles: its link is kept, or the
\* failure is caught and the loop goes on
UploadFileSettles ==
    /\ upPc = "upload"
    /\ \E outcome \in {"ok", "error"} :
          LET links == IF outcome = "ok"
                       THEN Append(upLinks, upExpanded[upIndex])
                       ELSE upLinks
              at == IF outcome = "ok"
                    THEN AfterFile(upIndex, upExpanded, links)
                    ELSE CaughtFileError(upIndex, upExpanded, links)
          IN /\ upLinks' = links
             /\ upPc' = at.pc
             /\ upIndex' = at.index
             /\ upResult' = UploadResultAt(at.pc)
             /\ upSteps' = Append(upSteps,
                   UpStep("upload", upExpanded[upIndex], outcome))
    /\ UNCHANGED <<upAssets, upList, upExpanded, upPut, localProjectId>>
    /\ UNCHANGED OutsideUpload

\* uploadedLinks.map(...): one link per uploaded file; the name of a file
\* is its path, the paths here having no directory
AssetLinks(links) == [k \in DOMAIN links |-> [name |-> links[k]]]

NoPut == [description |-> "", heading |-> "", links |-> <<>>]

\* `${release.description}\n\n## Assets\n${assetLinks}`
UpdatedDescription(description, links) ==
    [description |-> description, heading |-> "## Assets",
     links |-> AssetLinks(links)]

\* the GET of the release settles: its description is put with the links,
\* or the failure is caught and uploadAssets returns
ReleaseFetchSettles ==
    /\ upPc = "release"
    /\ \E outcome \in {"ok", "error"} :
          LET position == IF outcome = "ok" THEN "update" ELSE "done"
          IN /\ upPc' = position
             /\ upResult' = UploadResultAt(position)
             /\ upSteps' = Append(upSteps, UpStep("release", <<>>, outcome))
             /\ upPut' = IF outcome = "ok"
                         THEN UpdatedDescription("notes", upLinks)
                         ELSE upPut
    /\ UNCHANGED <<upAssets, upList, upExpanded, upIndex, upLinks,
                   localProjectId>>
    /\ UNCHANGED OutsideUpload

\* the PUT of the description settles; a failure is caught
ReleaseUpdateSettles ==
    /\ upPc = "update"
    /\ \E outcome \in {"ok", "error"} :
          upSteps' = Append(upSteps, UpStep("update", <<>>, outcome))
    /\ upPc' = "done"
    /\ upResult' = UploadResultAt("done")
    /\ UNCHANGED <<upAssets, upList, upExpanded, upIndex, upLinks, upPut,
                   localProjectId>>
    /\ UNCHANGED OutsideUpload

\* no uploadAssets call made
UploadIdle ==
    /\ upAssets = NoAssets
    /\ upPc = "idle"
    /\ upList = <<>>
    /\ upExpanded = <<>>
    /\ upIndex = 0
    /\ upSteps = <<>>
    /\ upLinks = <<>>
    /\ upResult = Pending
    /\ upPut = NoPut

--------------------------------------------------------------------------
(* gitlab.ts: getProjectId and the cache it fills *)

\* process.env.GITLAB_PROJECT_ID: unset, or a string of characters
NoEnv == [type |-> "undefined", val |-> <<>>]
EnvString(chars) == [type |-> "string", val |-> chars]
EnvTruthy(env) == env.type = "string" /\ env.val # <<>>

NaN == [type |-> "NaN", val |-> 0]
IsNaN(number) == number.type = "NaN"

DecimalDigits == <<"0", "1", "2", "3", "4", "5", "6", "7", "8", "9">>
IsDigit(c) == \E d \in DOMAIN DecimalDigits : DecimalDigits[d] = c
DigitValue(c) == (CHOOSE d \in DOMAIN DecimalDigits : DecimalDigits[d] = c) - 1

\* the digits a string starts with
RECURSIVE LeadingDigits(_)
LeadingDigits(chars) ==
    IF chars = <<>> \/ ~IsDigit(Head(chars)) THEN <<>>
    ELSE <<Head(chars)>> \o LeadingDigits(Tail(chars))

RECURSIVE DecimalValue(_)
DecimalValue(digits) ==
    IF digits = <<>> THEN 0
    ELSE 10 * DecimalValue(SubSeq(digits, 1, Len(digits) - 1))
         + DigitValue(digits[Len(digits)])

\* Number.parseInt(string, 10): leading white space is skipped, a sign is
\* read, then the digits up to the first other character; NaN without digit
parseInt(chars) ==
    LET text == TrimStart(chars)
        signed == text # <<>> /\ Head(text) \in {"-", "+"}
        digits == LeadingDigits(IF signed THEN Tail(text) ELSE text)
    IN IF digits = <<>> THEN NaN
       ELSE IF signed /\ Head(text) = "-"
            THEN ProjectIdNumber(0 - DecimalValue(digits))
            ELSE ProjectIdNumber(DecimalValue(digits))

\* localProjectId once the module is loaded
LoadedCache(env) ==
    IF EnvTruthy(env)
    THEN LET parsed == parseInt(env.val)
         IN IF ~IsNaN(parsed) THEN parsed ELSE NoProjectId
    ELSE NoProjectId

\* options.releaseRepo of the calls
Repos == {"group/a", "group/b"}

\* data.id of GET projects/<releaseRepo>
IdOf(repo) == IF repo = "group/a" THEN FetchedProjectId ELSE ProjectIdNumber(8)

CacheAfter_FailureStored(cache, outcome, id) ==
    IF outcome = "ok" THEN id ELSE NaN

\* localProjectId after the request settled: data.id is stored only past
\* the throw of a failed request or of an answer without a numeric id
CacheAfter(cache, outcome, id) ==
    IF outcome = "ok" THEN id ELSE cache

PidCall(repo, promise) == [repo |-> repo, result |-> promise]
PidEvent(call, what) == [call |-> call, what |-> what]

\* getProjectId is called: it returns the cached id, or sends its request
GetProjectIdCalled ==
    /\ Len(pidCalls) < MaxProjectIdCalls
    /\ \E repo \in Repos :
          LET call == Len(pidCalls) + 1
          IN IF IsCached(localProjectId)
             THEN /\ pidCalls' = Append(pidCalls,
                                        PidCall(repo, Returned(localProjectId)))
                  /\ pidLog' = pidLog \o <<PidEvent(call, "called"),
                                           PidEvent(call, "returned")>>
             ELSE /\ pidCalls' = Append(pidCalls, PidCall(repo, Pending))
                  /\ pidLog' = pidLog \o <<PidEvent(call, "called"),
                                           PidEvent(call, "request")>>
    /\ UNCHANGED <<pidEnv, localProjectId>>
    /\ UNCHANGED OutsideProjectId

\* the request of a call settles: the id is cached and returned, or the
\* call fails as the request failed or answered no numeric id
GetProjectIdSettles ==
    /\ \E call \in DOMAIN pidCalls, outcome \in ProjectOutcomes :
          /\ pidCalls[call].result = Pending
          /\ localProjectId' =
                CacheAfter(localProjectId, outcome, IdOf(pidCalls[call].repo))
          /\ IF outcome = "ok"
             THEN /\ pidCalls' = [pidCalls EXCEPT ![call].result =
                                     Returned(IdOf(pidCalls[call].repo))]
                  /\ pidLog' = Append(pidLog, PidEvent(call, "returned"))
             ELSE /\ pidCalls' = [pidCalls EXCEPT ![call].result =
                        Thrown([name |-> "Error",
                                message |-> "Cannot get the item id"])]
                  /\ pidLog' = Append(pidLog, PidEvent(call, "failed"))
    /\ UNCHANGED pidEnv
    /\ UNCHANGED OutsideProjectId

\* no getProjectId call of its own made
ProjectIdIdle ==
    /\ pidEnv = NoEnv
    /\ pidCalls = <<>>
    /\ pidLog = <<>>

--------------------------------------------------------------------------
(* config.ts: resolveConfig, and generate that awaits it *)

\* a value that is no string: an object given for a string option
ObjectValue == [type |-> "object", val |-> "{}"]

\* truth of a value as || and if take it
IsTruthy(v) == (v.type = "string" /\ v.val # "") \/ v.type = "object"

\* a || b
OrElse(a, b) == IF IsTruthy(a) THEN a ELSE b

providerToDomain ==
    [github |-> Str("https://github.com"), gitlab |-> Str("https://gitlab.com")]

providerToApiDomain ==
    [github |-> Str("https://api.github.com"),
     gitlab |-> Str("https://gitlab.com/api/v4")]

\* table[key]: undefined for a key the table does not have
TableLookup(table, key) ==
    IF key.val \in DOMAIN table THEN table[key.val] ELSE Undefined

BaseUrlOf_OrDerived(given, table, repoProvider) ==
    OrElse(given, TableLookup(table, OrElse(repoProvider, Str("github"))))

\* given ?? table[config.repoProvider || defaultConfig.repoProvider]
BaseUrlOf(given, table, repoProvider) ==
    NullishCoalesce(given, TableLookup(table, OrElse(repoProvider, Str("github"))))

\* config.repo || config.github || config.gitlab, before getGitRepo is asked
RepoGiven(config) == OrElse(config.repo, OrElse(config.github, config.gitlab))

RepoCheck_Skipped(repo) == "ok"

\* typeof config.repo !== 'string': resolveConfig throws
RepoCheck(repo) == IF repo.type # "string" THEN "throw" ELSE "ok"

InvalidRepositoryError(repo) ==
    [name |-> "Error",
     message |-> "Invalid repository, expected a string but got " \o repo.val]

\* getGitRepo(baseUrl) settles: owner/name of the origin remote, or it
\* fails as the remote cannot be read or parsed
getGitRepoOutcomes == {Str("origin/name"), Undefined}

\* generate goes on after resolveConfig, or fails with its error
AfterRepo(repo) ==
    IF RepoCheck(repo) = "throw"
    THEN [pc |-> "done", result |-> Thrown(InvalidRepositoryError(repo))]
    ELSE [pc |-> "getGitDiff", result |-> Pending]

\* generate(options) is called: resolveConfig awaits loadConfig, sets
\* baseUrl and baseUrlApi and asks git for the refs it was not given
GenerateCalled ==
    /\ cfgPc = "called"
    /\ cfgConfig' = [cfgLoaded EXCEPT
          !.baseUrl = BaseUrlOf(cfgLoaded.baseUrl, providerToDomain,
                                cfgLoaded.repoProvider),
          !.baseUrlApi = BaseUrlOf(cfgLoaded.baseUrlApi, providerToApiDomain,
                                   cfgLoaded.repoProvider)]
    /\ cfgPc' = "refs"
    /\ cfgLog' = Append(cfgLog, "git refs")
    /\ UNCHANGED <<cfgLoaded, cfgResult>>
    /\ UNCHANGED OutsideConfig

\* the refs are known, or git failed; then the repository is taken from
\* the options or asked of git
GitRefsSettle ==
    /\ cfgPc = "refs"
    /\ \E outcome \in {"ok", "error"} :
          IF outcome = "error"
          THEN /\ cfgPc' = "done"
               /\ cfgResult' = Thrown([name |-> "Error", message |-> "git failed"])
               /\ UNCHANGED <<cfgConfig, cfgLog>>
          ELSE IF IsTruthy(RepoGiven(cfgConfig))
          THEN /\ cfgConfig' = [cfgConfig EXCEPT !.repo = RepoGiven(cfgConfig)]
               /\ cfgPc' = AfterRepo(RepoGiven(cfgConfig)).pc
               /\ cfgResult' = AfterRepo(RepoGiven(cfgConfig)).result
               /\ cfgLog' = IF RepoCheck(RepoGiven(cfgConfig)) = "ok"
                            THEN Append(cfgLog, "getGitDiff") ELSE cfgLog
          ELSE /\ cfgPc' = "getGitRepo"
               /\ cfgLog' = Append(cfgLog, "getGitRepo")
               /\ UNCHANGED <<cfgConfig, cfgResult>>
    /\ UNCHANGED cfgLoaded
    /\ UNCHANGED OutsideConfig

\* await getGitRepo(config.baseUrl) settles
GetGitRepoSettles ==
    /\ cfgPc = "getGitRepo"
    /\ \E repo \in getGitRepoOutcomes :
          IF repo = Undefined
          THEN /\ cfgPc' = "done"
               /\ cfgResult' = Thrown([name |-> "Error",
                                       message |-> "Can not parse repo"])
               /\ UNCHANGED <<cfgConfig, cfgLog>>
          ELSE /\ cfgConfig' = [cfgConfig EXCEPT !.repo = repo]
               /\ cfgPc' = AfterRepo(repo).pc
               /\ cfgResult' = AfterRepo(repo).result
               /\ cfgLog' = IF RepoCheck(repo) = "ok"
                            THEN Append(cfgLog, "getGitDiff") ELSE cfgLog
    /\ UNCHANGED cfgLoaded
    /\ UNCHANGED OutsideConfig

\* await getGitDiff(from, to) settles; the commits are parsed and, for
\* contributors, resolveAuthors is called
GetGitDiffSettles ==
    /\ cfgPc = "getGitDiff"
    /\ \E outcome \in {"ok", "error"} :
          IF outcome = "error"
          THEN /\ cfgPc' = "done"
               /\ cfgResult' = Thrown([name |-> "Error", message |-> "git failed"])
               /\ UNCHANGED cfgLog
          ELSE IF cfgConfig.contributors
          THEN /\ cfgPc' = "resolveAuthors"
               /\ cfgLog' = Append(cfgLog, "resolveAuthors")
               /\ UNCHANGED cfgResult
          ELSE /\ cfgPc' = "generated"
               /\ cfgResult' = Returned(cfgConfig)
               /\ UNCHANGED cfgLog
    /\ UNCHANGED <<cfgLoaded, cfgConfig>>
    /\ UNCHANGED OutsideConfig

\* await resolveAuthors(commits, resolved) settles
GenerateAuthorsSettle ==
    /\ cfgPc = "resolveAuthors"
    /\ \E outcome \in {"ok", "error"} :
          IF outcome = "error"
          THEN /\ cfgPc' = "done"
               /\ cfgResult' = Thrown([name |-> "Error",
                                       message |-> "resolveAuthors failed"])
          ELSE /\ cfgPc' = "generated"
               /\ cfgResult' = Returned(cfgConfig)
    /\ UNCHANGED <<cfgLoaded, cfgConfig, cfgLog>>
    /\ UNCHANGED OutsideConfig

\* the caller of generate goes on to the release with the resolved config
ReleaseFollows ==
    /\ cfgPc = "generated"
    /\ cfgPc' = "done"
    /\ cfgLog' = Append(cfgLog, "release")
    /\ UNCHANGED <<cfgLoaded, cfgConfig, cfgResult>>
    /\ UNCHANGED OutsideConfig

NoConfig ==
    [baseUrl |-> Undefined, baseUrlApi |-> Undefined, repoProvider |-> Undefined,
     repo |-> Undefined, github |-> Undefined, gitlab |-> Undefined,
     contributors |-> FALSE]

\* no generate call made
ConfigIdle ==
    /\ cfgLoaded = NoConfig
    /\ cfgConfig = NoConfig
    /\ cfgPc = "idle"
    /\ cfgLog = <<>>
    /\ cfgResult = Pending

--------------------------------------------------------------------------
(* cli.ts: the token of a run *)

\* A token, the value of an environment variable and the content of a file
\* are tested for truth, trimmed and tested against a pattern: they are
\* undefined or strings of characters.  cac hands a numeric argument over
\* as a number.
TokenNumber == [type |-> "number", val |-> <<"4", "2">>]
TokenZero == [type |-> "number", val |-> <<"0">>]

\* if (token), !token
TokenTruthy(token) ==
    \/ EnvTruthy(token)
    \/ token.type = "number" /\ token.val # <<"0">>

\* a || b
TokenOr(a, b) == IF TokenTruthy(a) THEN a ELSE b

\* typeof token === 'string' && token.length < 512 && /[\\/]/.test(token)
LooksLikePath(token) ==
    /\ token.type = "string"
    /\ Len(token.val) < 512
    /\ \E i \in DOMAIN token.val : token.val[i] \in {"/", "\\"}

\* args.repoProvider || 'github'
ProviderOfArgs(args) == IF Truthy(args.repoProvider) THEN args.repoProvider.val
                        ELSE "github"

EnvToken_PrivateFirst(repoProvider, env) ==
    IF repoProvider = "gitlab"
    THEN TokenOr(env["GITLAB_PRIVATE_TOKEN"],
                 TokenOr(env["GITLAB_TOKEN"], EnvString(<<>>)))
    ELSE TokenOr(env["GITHUB_TOKEN"], EnvString(<<>>))

\* process.env.GITLAB_TOKEN || process.env.GITLAB_PRIVATE_TOKEN || '', or
\* process.env.GITHUB_TOKEN || ''
EnvToken(repoProvider, env) ==
    IF repoProvider = "gitlab"
    THEN TokenOr(env["GITLAB_TOKEN"],
                 TokenOr(env["GITLAB_PRIVATE_TOKEN"], EnvString(<<>>)))
    ELSE TokenOr(env["GITHUB_TOKEN"], EnvString(<<>>))

\* envPath
EnvPath(repoProvider, env) ==
    IF repoProvider = "gitlab"
    THEN TokenOr(env["GITLAB_TOKEN_PATH"], env["GITLAB_PRIVATE_TOKEN_PATH"])
    ELSE env["GITHUB_TOKEN_PATH"]

\* the command readTokenFromGitLabCli and readTokenFromGitHubCli run
AuthTool(repoProvider) == IF repoProvider = "gitlab" THEN <<"glab">> ELSE <<"gh">>

\* the file or the command cannot be read, or answers these characters
ReadOutcomes(name) ==
    {[failed |-> TRUE, data |-> <<>>],
     [failed |-> FALSE, data |-> <<" ">>],
     [failed |-> FALSE, data |-> <<" ", "@">> \o name \o <<" ">>]}

\* readTokenFromFile, readTokenFromGitLabCli, readTokenFromGitHubCli: the
\* trimmed answer, '' after a failure
ReadToken(outcome) ==
    IF outcome.failed THEN EnvString(<<>>) ELSE EnvString(Trim(outcome.data))

CliRead(source, name) == [source |-> source, name |-> name, answer |-> NoEnv]

\* where the action stands before its first await
FirstTokenStep(args, env) ==
    LET repoProvider == ProviderOfArgs(args)
        envToken == EnvToken(repoProvider, env)
        envPath == EnvPath(repoProvider, env)
    IN IF TokenTruthy(args.token)
       THEN IF LooksLikePath(args.token)
            THEN [pc |-> "argFile", token |-> args.token,
                  reads |-> <<CliRead("file", args.token.val)>>]
            ELSE [pc |-> "done", token |-> args.token, reads |-> <<>>]
       ELSE IF TokenTruthy(envToken)
            THEN [pc |-> "done", token |-> envToken, reads |-> <<>>]
       ELSE IF TokenTruthy(envPath)
            THEN [pc |-> "envFile", token |-> envToken,
                  reads |-> <<CliRead("file", envPath.val)>>]
       ELSE [pc |-> "tool", token |-> envToken,
             reads |-> <<CliRead("tool", AuthTool(repoProvider))>>]

\* if (token) args.token = token
ArgsTokenWith(args, token) == IF TokenTruthy(token) THEN token ELSE args.token

\* the log with the answer of the read under way
CliAnswered(token) == [cliReads EXCEPT ![Len(cliReads)].answer = token]

\* the action is called and runs to its first await, or sets args.token
CliActionCalled ==
    /\ cliPc = "called"
    /\ LET step == FirstTokenStep(cliArgs, cliEnv)
       IN /\ cliPc' = step.pc
          /\ cliToken' = step.token
          /\ cliReads' = step.reads
          /\ cliArgsToken' = IF step.pc = "done"
                             THEN ArgsTokenWith(cliArgs, step.token)
                             ELSE cliArgsToken
    /\ UNCHANGED <<cliArgs, cliEnv>>
    /\ UNCHANGED OutsideCli

\* readTokenFromFile(token) settles: a non-empty content is the token
ArgFileSettles ==
    /\ cliPc = "argFile"
    /\ \E outcome \in ReadOutcomes(cliReads[Len(cliReads)].name) :
          LET fileToken == ReadToken(outcome)
              token == IF TokenTruthy(fileToken) THEN fileToken ELSE cliToken
          IN /\ cliToken' = token
             /\ cliReads' = CliAnswered(fileToken)
             /\ cliArgsToken' = ArgsTokenWith(cliArgs, token)
    /\ cliPc' = "done"
    /\ UNCHANGED <<cliArgs, cliEnv>>
    /\ UNCHANGED OutsideCli

\* readTokenFromFile(envPath) settles: an empty content leads to the
\* command of the provider
EnvFileSettles ==
    /\ cliPc = "envFile"
    /\ \E outcome \in ReadOutcomes(cliReads[Len(cliReads)].name) :
          LET token == ReadToken(outcome)
          IN /\ cliToken' = token
             /\ IF TokenTruthy(token)
                THEN /\ cliPc' = "done"
                     /\ cliReads' = CliAnswered(token)
                     /\ cliArgsToken' = ArgsTokenWith(cliArgs, token)
                ELSE /\ cliPc' = "tool"
                     /\ cliReads' = Append(CliAnswered(token),
                           CliRead("tool", AuthTool(ProviderOfArgs(cliArgs))))
                     /\ UNCHANGED cliArgsToken
    /\ UNCHANGED <<cliArgs, cliEnv>>
    /\ UNCHANGED OutsideCli

\* glab auth token, or gh auth token, settles
AuthToolSettles ==
    /\ cliPc = "tool"
    /\ \E outcome \in ReadOutcomes(cliReads[Len(cliReads)].name) :
          LET token == ReadToken(outcome)
          IN /\ cliToken' = token
             /\ cliReads' = CliAnswered(token)
             /\ cliArgsToken' = ArgsTokenWith(cliArgs, token)
    /\ cliPc' = "done"
    /\ UNCHANGED <<cliArgs, cliEnv>>
    /\ UNCHANGED OutsideCli

TokenVariables ==
    {"GITLAB_TOKEN", "GITLAB_PRIVATE_TOKEN", "GITLAB_TOKEN_PATH",
     "GITLAB_PRIVATE_TOKEN_PATH", "GITHUB_TOKEN", "GITHUB_TOKEN_PATH"}

\* the action has not been called
CliIdle ==
    /\ cliArgs = [token |-> NoEnv, repoProvider |-> Undefined]
    /\ cliEnv = [name \in TokenVariables |-> NoEnv]
    /\ cliPc = "idle"
    /\ cliToken = NoEnv
    /\ cliReads = <<>>
    /\ cliArgsToken = NoEnv

--------------------------------------------------------------------------
(* gitlab.ts: hasTagOnGitLab *)

\* repository/tags/<tag> settles: the tag is there, or the request fails
\* (the tag is missing, or the network failed)
TagOutcomes == {"ok", "error"}

HtRequest(kind) == [kind |-> kind, outcome |-> "pending"]

HtSettled(outcome) ==
    [htRequests EXCEPT ![Len(htRequests)].outcome = outcome]

HasTagCaught_Rethrown(error) == Thrown(error)

\* catch { return false }
HasTagCaught(error) == Returned(FALSE)

\* hasTagOnGitLab is called and runs to its first request: the project
\* when its id is not cached, else the tag
HasTagOnGitLabCalled ==
    /\ htPc = "called"
    /\ IF IsCached(localProjectId)
       THEN /\ htPc' = "tag"
            /\ htRequests' = Append(htRequests, HtRequest("tag"))
       ELSE /\ htPc' = "project"
            /\ htRequests' = Append(htRequests, HtRequest("project"))
    /\ UNCHANGED <<htResult, localProjectId>>
    /\ UNCHANGED RunVars
    /\ UNCHANGED OutsideHasTag

\* the request of getProjectId settles: the id is cached and the tag is
\* asked for, or the failure is caught
HasTagProjectSettles ==
    /\ htPc = "project"
    /\ \E outcome \in ProjectOutcomes :
          IF outcome = "ok"
          THEN /\ localProjectId' = FetchedProjectId
               /\ htPc' = "tag"
               /\ htRequests' = Append(HtSettled("ok"), HtRequest("tag"))
               /\ UNCHANGED htResult
          ELSE /\ htPc' = "done"
               /\ htRequests' = HtSettled("error")
               /\ htResult' = HasTagCaught([name |-> "Error",
                                            message |-> "Cannot get the item id"])
               /\ UNCHANGED localProjectId
    /\ UNCHANGED RunVars
    /\ UNCHANGED OutsideHasTag

\* the request of the tag settles
HasTagTagSettles ==
    /\ htPc = "tag"
    /\ \E outcome \in TagOutcomes :
          /\ htRequests' = HtSettled(outcome)
          /\ htResult' = IF outcome = "ok" THEN Returned(TRUE)
                         ELSE HasTagCaught([name |-> "FetchError",
                                            message |-> "tag request failed"])
    /\ htPc' = "done"
    /\ UNCHANGED localProjectId
    /\ UNCHANGED RunVars
    /\ UNCHANGED OutsideHasTag

\* no hasTagOnGitLab call made
HasTagIdle ==
    /\ htPc = "idle"
    /\ htRequests = <<>>
    /\ htResult = Pending

\* no executeChangelog call under way
ExecuteIdle ==
    /\ exOptions = [json |-> FALSE, printMd |-> FALSE, assets |-> NoAssets]
    /\ exPc = "idle"
    /\ exResult = Pending

--------------------------------------------------------------------------
(* The contexts a run is started from *)

\* config.repoProvider of a resolved configuration: the two supported
\* providers, an empty override, an unknown name, a name Object.prototype has
RepoProviders ==
    {Str("github"), Str("gitlab"), Str(""), Str("bitbucket"), Str("constructor")}

Tokens == {Undefined, Str(""), Str("glpat-token")}
Outputs == {Undefined, Str(""), Str("CHANGELOG.md")}
Refs == {"v1.0.0"}

\* config.assets: unset, or one configured file
ConfigAssets == {NoAssets, AssetString(<<"a">>)}

\* fragments an asset list of a run is made of
RunFragments == {<<>>, <<" ">>, <<"a">>, <<"a", ",", "a">>}

\* options.assets of a run
RunAssets ==
    {NoAssets}
    \cup {AssetString(s) : s \in SeqsUpTo(AssetChars, RunAssetLen)}
    \cup {AssetArray(l) : l \in SeqsUpTo(RunFragments, RunAssetItems)}

Configs ==
    [dry : BOOLEAN,
     output : Outputs,
     token : Tokens,
     repoProvider : RepoProviders,
     to : Refs,
     assets : ConfigAssets]

Init ==
    /\ context \in {prepareRelease(config, md, commits) :
                       config \in Configs, md \in Markdowns,
                       commits \in CommitLists}
    /\ options \in [assets : RunAssets]
    /\ clone \in [shallow : BOOLEAN]
    /\ pc = "prepared"
    /\ calls = <<>>
    /\ settled = <<>>
    /\ writes = <<>>
    /\ stored = {}
    /\ result = Pending
    /\ NormIdle
    /\ GwIdle
    /\ CacheIdle
    /\ AuthorsIdle
    /\ SendReleaseIdle
    /\ UploadIdle
    /\ ProjectIdIdle
    /\ ConfigIdle
    /\ CliIdle
    /\ ExecuteIdle
    /\ HasTagIdle

Next ==
    \/ Start
    \/ WriteFileSettles
    \/ HasTagSettles
    \/ IsRepoShallowSettles
    \/ SendReleaseSettles
    \/ UploadAssetsSettles

Spec == Init /\ [][Next]_vars


--------------------------------------------------------------------------
(* Vocabulary of the properties of performRelease *)

Done == pc = "done"

\* the gateway operations: every one of them is a network call
NetworkOps == {"hasTag", "sendRelease", "uploadAssets"}

Invoked(op) == \E i \in 1..Len(calls) : calls[i].op = op

TimesInvoked(op) == Cardinality({i \in 1..Len(calls) : calls[i].op = op})

NoNetworkCall == \A i \in 1..Len(calls) : calls[i].op \notin NetworkOps

HasSettled(op, outcome) ==
    \E i \in 1..Len(settled) : settled[i].op = op /\ settled[i].outcome = outcome

ReturnedOutcome(outcome) ==
    result.kind = "return" /\ result.value.outcome = outcome

ThrewCode(code) ==
    /\ result.kind = "throw"
    /\ result.value.name = "ReleaseExecutionError"
    /\ result.value.code = code

\* performRelease rejected with an error that is not a ReleaseExecutionError
ThrewOther(name) ==
    /\ result.kind = "throw"
    /\ result.value.name = name

DryIsSet == context.config.dry
OutputIsString == context.config.output.type = "string"
TokenPresent == Truthy(context.config.token)

\* the assets a run is asked to upload
RequestedAssets ==
    IF options.assets.type # "undefined" THEN options.assets
    ELSE context.config.assets

--------------------------------------------------------------------------
(* C1: whenever config.dry is set, the run ends at its first step with
   outcome 'dry-run'; no gateway operation is ever invoked (and nothing is
   awaited), whatever output, token, commits and assets are. *)
C1_DryRunNoNetwork ==
    DryIsSet =>
        /\ NoNetworkCall
        /\ pc \in {"prepared", "done"}
        /\ Done => ReturnedOutcome("dry-run")

C1_Witness ==
    /\ DryIsSet
    /\ Done
    /\ ReturnedOutcome("dry-run")
    /\ OutputIsString
    /\ TokenPresent
    /\ context.commits # <<>>
    /\ normalizeAssets(RequestedAssets) # <<>>

(* C2 as stated: with dry unset and output a string, the run returns
   'output-saved' with outputPath the configured path, having written
   exactly context.md to that path, without any network call. *)
C2_AsStated ==
    (~DryIsSet /\ OutputIsString /\ Done) =>
        /\ ReturnedOutcome("output-saved")
        /\ result.value.outputPath = context.config.output
        /\ stored = {[path |-> context.config.output.val, data |-> context.md]}
        /\ NoNetworkCall

(* C2, amended: with dry unset and output a string, the run issues exactly
   one write, of context.md unmodified to the configured path, and no
   network call, with or without a token; if the write succeeds the run
   returns 'output-saved' with outputPath the configured path, and if the
   write fails (as it must for the empty path) the write's error is the
   error of the run and no outcome is returned. *)
C2_OutputSaved ==
    (~DryIsSet /\ OutputIsString) =>
        /\ NoNetworkCall
        /\ pc \in {"prepared", "writeFile", "done"}
        /\ pc # "prepared" =>
              writes = <<[path |-> context.config.output.val,
                          data |-> context.md,
                          encoding |-> "utf-8"]>>
        /\ Done =>
              \/ /\ HasSettled("writeFile", "ok")
                 /\ ReturnedOutcome("output-saved")
                 /\ result.value.outputPath = context.config.output
                 /\ stored = {[path |-> context.config.output.val,
                               data |-> context.md]}
              \/ /\ HasSettled("writeFile", "error")
                 /\ ThrewOther("SystemError")

C2_Witness ==
    /\ ~DryIsSet
    /\ context.config.output = Str("CHANGELOG.md")
    /\ ~TokenPresent
    /\ Done
    /\ ReturnedOutcome("output-saved")
    /\ sanitizeMarkdown(context.md) # context.md
    /\ \E f \in stored : f.data = context.md

\* the credential variable names of a provider
CredentialEnvName(provider) ==
    IF provider = Str("gitlab") THEN Str("GITLAB_TOKEN or GITLAB_PRIVATE_TOKEN")
    ELSE Str("GITHUB_TOKEN or GITHUB_TOKEN_PATH")

\* discriminators the gateway resolves to a provider
ActiveProviders == {Str("github"), Str("gitlab"), Str("")}

(* C3: with dry unset, no output path and no token, the run halts at its
   first step with MISSING_TOKEN: hasTag, isRepoShallow, sendRelease and
   uploadAssets are never called and nothing is written, and the error
   carries the context's webUrl and the credential variable name of the
   active provider. *)
C3_MissingToken ==
    (~DryIsSet /\ ~OutputIsString /\ ~TokenPresent) =>
        /\ calls = <<>>
        /\ writes = <<>>
        /\ pc \in {"prepared", "done"}
        /\ Done =>
              /\ ThrewCode("MISSING_TOKEN")
              /\ result.value.details.webUrl = context.webUrl
              /\ context.config.repoProvider \in ActiveProviders =>
                    /\ result.value.details.tokenEnvName
                          = CredentialEnvName(context.config.repoProvider)
                    /\ Str(result.value.message.subject)
                          = CredentialEnvName(context.config.repoProvider)

C3_Witness ==
    /\ ~DryIsSet /\ ~OutputIsString /\ ~TokenPresent
    /\ context.config.repoProvider = Str("gitlab")
    /\ context.commits = <<>>
    /\ clone.shallow
    /\ Done
    /\ ThrewCode("MISSING_TOKEN")

\* the display name of a provider
DisplayName(provider) == IF provider = Str("gitlab") THEN "GitLab" ELSE "GitHub"

(* C4: with dry and output unset and a token present, a false result of
   hasTag(config.to) halts the run with MISSING_TAG, whose message names the
   provider by its display name and whose details carry the context's
   webUrl; sendRelease and uploadAssets (and isRepoShallow) are not called. *)
C4_MissingTag ==
    HasSettled("hasTag", "false") =>
        /\ ~DryIsSet /\ ~OutputIsString /\ TokenPresent
        /\ calls = <<Call("hasTag", context.config.to)>>
        /\ Done
        /\ ThrewCode("MISSING_TAG")
        /\ result.value.message.providerName
              = DisplayName(context.config.repoProvider)
        /\ result.value.message.subject = context.config.to
        /\ result.value.details.webUrl = context.webUrl

C4_Witness ==
    /\ HasSettled("hasTag", "false")
    /\ context.config.repoProvider = Str("gitlab")
    /\ ThrewCode("MISSING_TAG")
    /\ normalizeAssets(RequestedAssets) # <<>>

(* C5: once the tag is known to exist, an empty commit list in a shallow
   clone halts the run with SHALLOW_REPO and sendRelease is never called;
   an empty commit list in a full clone, or a non-empty commit list,
   leads to the sendRelease call. *)
C5_ShallowRepo ==
    HasSettled("hasTag", "true") =>
        /\ (context.commits = <<>> /\ clone.shallow /\ pc # "isRepoShallow") =>
              /\ Done
              /\ ThrewCode("SHALLOW_REPO")
              /\ ~Invoked("sendRelease")
              /\ ~Invoked("uploadAssets")
        /\ (context.commits = <<>> /\ ~clone.shallow /\ pc # "isRepoShallow") =>
              /\ Invoked("sendRelease")
              /\ ~ThrewCode("SHALLOW_REPO")
        /\ context.commits # <<>> =>
              /\ Invoked("sendRelease")
              /\ ~Invoked("isRepoShallow")
              /\ ~ThrewCode("SHALLOW_REPO")

C5_Witness ==
    /\ HasSettled("hasTag", "true")
    /\ context.commits = <<>>
    /\ clone.shallow
    /\ Done
    /\ ThrewCode("SHALLOW_REPO")


(* C6 as stated: the terminal state is decided by the first condition that
   holds in the order dry, output path, missing token, missing tag,
   shallow repo: dry with output writes no file; output without token ends
   'output-saved'; a missing tag ends MISSING_TAG even when the commit
   list is empty and the clone shallow. *)
C6_AsStated ==
    Done =>
        /\ DryIsSet => (ReturnedOutcome("dry-run") /\ writes = <<>>)
        /\ (~DryIsSet /\ OutputIsString) => ReturnedOutcome("output-saved")
        /\ (~DryIsSet /\ ~OutputIsString /\ ~TokenPresent) =>
              ThrewCode("MISSING_TOKEN")
        /\ HasSettled("hasTag", "false") => ThrewCode("MISSING_TAG")
        /\ ThrewCode("SHALLOW_REPO") => HasSettled("hasTag", "true")

(* C6, amended: the same order decides the terminal state, except that
   with output set (and dry unset) the result is 'output-saved' or, when
   the write fails, the error of that write; it is never MISSING_TOKEN and
   the token is not looked at.  With dry and output both set no file is
   written; with the tag missing, the commit list empty and the clone
   shallow, the result is MISSING_TAG and the clone is never inspected. *)
C6_FirstConditionDecides ==
    Done =>
        /\ DryIsSet => (ReturnedOutcome("dry-run") /\ writes = <<>>)
        /\ (~DryIsSet /\ OutputIsString) =>
              /\ ReturnedOutcome("output-saved") \/ ThrewOther("SystemError")
              /\ calls = <<>>
        /\ (~DryIsSet /\ ~OutputIsString) => writes = <<>>
        /\ (~DryIsSet /\ ~OutputIsString /\ ~TokenPresent) =>
              ThrewCode("MISSING_TOKEN")
        /\ ThrewCode("MISSING_TOKEN") =>
              (~DryIsSet /\ ~OutputIsString /\ ~TokenPresent)
        /\ HasSettled("hasTag", "false") =>
              (ThrewCode("MISSING_TAG") /\ ~Invoked("isRepoShallow"))
        /\ ThrewCode("MISSING_TAG") => HasSettled("hasTag", "false")
        /\ ThrewCode("SHALLOW_REPO") =>
              /\ HasSettled("hasTag", "true")
              /\ context.commits = <<>>
              /\ clone.shallow
        /\ ReturnedOutcome("released") =>
              /\ ~DryIsSet /\ ~OutputIsString /\ TokenPresent
              /\ HasSettled("hasTag", "true")
              /\ ~(context.commits = <<>> /\ clone.shallow)

C6_Witness ==
    /\ Done
    /\ ~DryIsSet /\ ~OutputIsString /\ TokenPresent
    /\ HasSettled("hasTag", "false")
    /\ context.commits = <<>>
    /\ clone.shallow
    /\ ThrewCode("MISSING_TAG")

(* C7: uploadAssets is called only after sendRelease has succeeded, and at
   most once.  After sendRelease succeeds it is called, with the requested
   assets, exactly when their normalized list is non-empty, and the run
   then returns 'released' carrying the normalized list when it is
   non-empty and no list otherwise. *)
C7_UploadAfterRelease ==
    LET wanted == normalizeAssets(RequestedAssets) IN
    /\ Invoked("uploadAssets") => HasSettled("sendRelease", "ok")
    /\ TimesInvoked("uploadAssets") <= 1
    /\ HasSettled("sendRelease", "ok") =>
          /\ pc \in {"uploadAssets", "done"}
          /\ Invoked("uploadAssets") <=> wanted # <<>>
          /\ Invoked("uploadAssets") =>
                /\ calls[Len(calls)].op = "uploadAssets"
                /\ calls[Len(calls)].arg = RequestedAssets
          /\ pc = "uploadAssets" => result = Pending
          /\ Done =>
                /\ ReturnedOutcome("released")
                /\ result.value.uploadedAssets =
                      IF wanted # <<>> THEN AssetArray(wanted)
                      ELSE NoAssets
    /\ ReturnedOutcome("released") => HasSettled("sendRelease", "ok")

C7_Witness ==
    /\ Done
    /\ ReturnedOutcome("released")
    /\ TimesInvoked("uploadAssets") = 1
    /\ HasSettled("uploadAssets", "ok")
    /\ options.assets = AssetArray(<< <<"a", ",", "a">> >>)
    /\ result.value.uploadedAssets = AssetArray(<< <<"a">>, <<"a">> >>)

\* the six terminal states of the orchestrator
InTerminalState ==
    \/ ReturnedOutcome("dry-run")
    \/ ReturnedOutcome("output-saved")
    \/ ReturnedOutcome("released")
    \/ ThrewCode("MISSING_TOKEN")
    \/ ThrewCode("MISSING_TAG")
    \/ ThrewCode("SHALLOW_REPO")

\* the run rejected with the error of a failed write or gateway call
EndedInPropagatedError ==
    \/ ThrewOther("SystemError") /\ HasSettled("writeFile", "error")
    \/ ThrewOther("FetchError") /\ HasSettled("sendRelease", "error")
    \/ ThrewOther("Error") /\ HasSettled("hasTag", "throw")
    \/ ThrewOther("TypeError") /\ HasSettled("hasTag", "throw")

(* C9 as stated: every run ends in one of the six terminal states
   dry-run, output-saved, missing-token, missing-tag, shallow-repo,
   released. *)
C9_AsStated == Done => InTerminalState

\* no call, write or settlement follows the end of the run
QuietAfterEnd ==
    result # Pending =>
        /\ result' = result
        /\ calls' = calls
        /\ writes' = writes
        /\ stored' = stored

(* C9, amended: every run ends either in exactly one of the six terminal
   states or with the propagated error of a failed file write or provider
   call (a gateway call that could not select a provider method, a failed
   sendRelease); a run that has not ended can always take a step; the
   promise is settled exactly when the run has ended, at most once, and no
   provider call or file write follows. *)
C9_TerminalOrError ==
    /\ [](/\ Done <=> result # Pending
          /\ Done => (InTerminalState \/ EndedInPropagatedError)
          /\ Done => ~(InTerminalState /\ EndedInPropagatedError)
          /\ ~Done => ENABLED Next)
    /\ [][QuietAfterEnd]_vars

C9_Witness ==
    /\ Done
    /\ ThrewOther("FetchError")
    /\ HasSettled("hasTag", "true")
    /\ Invoked("sendRelease")
    /\ ~Invoked("uploadAssets")


--------------------------------------------------------------------------
(* normalizeAssets on its own *)

\* no performRelease run under way
RunIdle ==
    /\ context = prepareRelease(
                    [dry |-> TRUE, output |-> Undefined, token |-> Undefined,
                     repoProvider |-> Str("github"), to |-> "v1.0.0",
                     assets |-> NoAssets],
                    <<"## Features">>, <<>>)
    /\ options = [assets |-> NoAssets]
    /\ clone = [shallow |-> FALSE]
    /\ pc = "idle"
    /\ calls = <<>>
    /\ settled = <<>>
    /\ writes = <<>>
    /\ stored = {}
    /\ result = Pending

AssetsInit ==
    /\ NormInit
    /\ RunIdle
    /\ GwIdle
    /\ CacheIdle
    /\ AuthorsIdle
    /\ SendReleaseIdle
    /\ UploadIdle
    /\ ProjectIdIdle
    /\ ConfigIdle
    /\ CliIdle
    /\ ExecuteIdle
    /\ HasTagIdle

AssetsNext == Normalize \/ NormalizeJoined

SpecAssets == AssetsInit /\ [][AssetsNext]_vars

\* a character that is neither a comma nor whitespace
Solid(c) == c # "," /\ c \notin Whitespace

\* the characters of a string or of every item of a list, in order
RECURSIVE Concat(_)
Concat(items) ==
    IF items = <<>> THEN <<>> ELSE Head(items) \o Concat(Tail(items))

AllChars(a) == IF a.type = "array" THEN Concat(a.val) ELSE a.val

\* the solid characters of a sequence, in order
SolidChars(chars) == SelectSeq(chars, Solid)

\* number of comma-separated fragments of a string holding a solid
\* character: positions of a solid character that no solid character
\* precedes since the last comma
NonBlankFragments(chars) ==
    Cardinality({i \in 1..Len(chars) :
        /\ Solid(chars[i])
        /\ \A j \in 1..(i - 1) :
              Solid(chars[j]) => \E k \in (j + 1)..(i - 1) : chars[k] = ","})

RECURSIVE NonBlankFragmentsOfList(_)
NonBlankFragmentsOfList(items) ==
    IF items = <<>> THEN 0
    ELSE NonBlankFragments(Head(items)) + NonBlankFragmentsOfList(Tail(items))

\* a fragment as it must come out: not empty, no comma, trimmed
CleanFragment(f) ==
    /\ f # <<>>
    /\ \A i \in 1..Len(f) : f[i] # ","
    /\ Solid(f[1])
    /\ Solid(f[Len(f)])

(* C8: normalizeAssets gives the same ordered list for a list of fragments
   and for its comma-joined string; the result holds, in input order,
   exactly the comma-separated fragments that are not empty or
   whitespace-only, each trimmed; an absent input gives the empty list. *)
C8_NormalizeAssets ==
    /\ normPc \in {"returned", "compared"} =>
          /\ assetsArg = NoAssets => normResult = <<>>
          /\ \A i \in 1..Len(normResult) : CleanFragment(normResult[i])
          /\ SolidChars(Concat(normResult)) = SolidChars(AllChars(assetsArg))
          /\ Len(normResult) =
                IF assetsArg.type = "array"
                THEN NonBlankFragmentsOfList(assetsArg.val)
                ELSE NonBlankFragments(assetsArg.val)
    /\ normPc = "compared" => joinedResult = normResult

C8_Witness ==
    /\ normPc = "compared"
    /\ assetsArg = AssetArray(<< <<"a">>, <<" ", "b">> >>)
    /\ Join(assetsArg.val) = <<"a", ",", " ", "b">>
    /\ normResult = << <<"a">>, <<"b">> >>
    /\ joinedResult = << <<"a">>, <<"b">> >>


--------------------------------------------------------------------------
(* providers.ts on its own *)

GatewayInit ==
    /\ GwInit
    /\ RunIdle
    /\ NormIdle
    /\ CacheIdle
    /\ AuthorsIdle
    /\ SendReleaseIdle
    /\ UploadIdle
    /\ ProjectIdIdle
    /\ ConfigIdle
    /\ CliIdle
    /\ ExecuteIdle
    /\ HasTagIdle

GatewayNext ==
    \/ GetProviderReturns
    \/ GatewaySelects
    \/ GatewayDelegates
    \/ AdapterSettles

SpecGateway == GatewayInit /\ [][GatewayNext]_vars

SupportedProviders == {"github", "gitlab"}

(* C10: getProvider returns, for 'github' and for 'gitlab', a provider with
   the four operations sendRelease, resolveAuthors, hasTag, uploadAssets,
   and for any other discriminator fails with 'Unsupported repository
   provider: <name>' before any adapter function (and so any network call)
   is entered; a unified function enters an adapter only after it selected
   the provider. *)
C10_GetProvider ==
    /\ (gwPc = "done" /\ gwCall.fn = "getProvider") =>
          /\ gwEntered = <<>>
          /\ gwCall.arg.val \in SupportedProviders =>
                /\ gwResult.kind = "return"
                /\ gwResult.provider.name = gwCall.arg.val
                /\ gwResult.provider.ops =
                      {"sendRelease", "resolveAuthors", "hasTag", "uploadAssets"}
          /\ gwCall.arg.val \notin SupportedProviders =>
                /\ gwResult.kind = "throw"
                /\ gwResult.error.message =
                      "Unsupported repository provider: " \o gwCall.arg.val
    /\ gwEntered # <<>> =>
          /\ gwCall.fn \in ProviderOps
          /\ gwProvider.name \in SupportedProviders
          /\ gwProvider.name = OrGithub(gwCall.arg)
          /\ gwEntered = <<[adapter |-> gwProvider.name, fn |-> gwCall.fn]>>


--------------------------------------------------------------------------
(* resolveAuthors on its own *)

\* raw authors of commits: two people with the same name, two names with
\* the same email, a name in another case, a bot that shares an email with
\* a person, an author without name and one without email
RawAuthors ==
    {[name |-> <<"a", "n", "n">>, email |-> "ann@x.io"],
     [name |-> <<"a", "n", "n">>, email |-> "bob@x.io"],
     [name |-> <<"B", "o", "b">>, email |-> "bob@x.io"],
     [name |-> <<"B", "o", "b">>, email |-> "cat@x.io"],
     [name |-> <<"[", "B", "o", "t", "]">>, email |-> "ann@x.io"],
     [name |-> <<>>, email |-> "cat@x.io"],
     [name |-> <<"a", "n", "n">>, email |-> ""]}

\* the commits passed in carry these hashes, in this order
ShortHashes == <<"h1", "h2">>

\* the author lists of k commits that hold at most budget entries together
RECURSIVE AuthorListsOf(_, _)
AuthorListsOf(k, budget) ==
    IF k = 0 THEN {<<>>}
    ELSE UNION {{<<l>> \o rest : rest \in AuthorListsOf(k - 1, budget - Len(l))} :
                  l \in SeqsUpTo(RawAuthors, budget)}

\* the commit lists that hold at most budget author entries
CommitSets(budget) ==
    {[i \in 1..Len(lists) |-> [shortHash |-> ShortHashes[i], authors |-> lists[i]]] :
        lists \in UNION {AuthorListsOf(k, budget) : k \in 0..Len(ShortHashes)}}

AuthorsInit ==
    /\ auToken \in Tokens
    /\ auCommits \in CommitSets(IF Truthy(auToken) THEN MaxLookupEntries
                                 ELSE MaxAuthorEntries)
    /\ localProjectId \in {NoProjectId, FetchedProjectId}
    /\ auPc = "called"
    /\ auHeap = <<>>
    /\ auMap = <<>>
    /\ auResolved = <<>>
    /\ auLookup = <<>>
    /\ auRequests = <<>>
    /\ auResult = Pending
    /\ RunIdle
    /\ NormIdle
    /\ GwIdle
    /\ SendReleaseIdle
    /\ UploadIdle
    /\ ProjectIdIdle
    /\ ConfigIdle
    /\ CliIdle
    /\ ExecuteIdle
    /\ HasTagIdle

AuthorsNext ==
    \/ ResolveAuthorsCalled
    \/ UserSearchSettles
    \/ ProjectIdSettles
    \/ CommitDetailSettles
    \/ ResolveAuthorsReturns

SpecAuthors == AuthorsInit /\ [][AuthorsNext]_vars


\* the Map is built
MapBuilt == auPc \in {"resolving", "done"}

\* an author entry that passes the exclusion filter
Kept(a) == ~LacksField(a) /\ ~IsExcluded(a.name)

\* how often an object's commits list holds a hash
Credits(info, hash) ==
    Cardinality({k \in 1..Len(auHeap[info].commits) :
                    auHeap[info].commits[k] = hash})

OnePerEmail ==
    \A r, q \in DOMAIN auHeap : auHeap[r].email = auHeap[q].email => r = q

(* C11 as stated: one AuthorInfo per distinct email; every commit that
   references the email, in whatever author entry, holds that object in
   resolvedAuthors; the object's commits list holds the hash of a commit
   exactly when the email is the email of the commit's author at index 0. *)
C11_AsStated ==
    MapBuilt =>
       /\ OnePerEmail
       /\ \A r \in DOMAIN auHeap, ci \in DOMAIN auCommits :
             LET authors == auCommits[ci].authors
             IN /\ (\E k \in DOMAIN authors : authors[k].email = auHeap[r].email)
                      => \E j \in DOMAIN auResolved[ci] : auResolved[ci][j] = r
                /\ Credits(r, auCommits[ci].shortHash) >= 1
                      <=> (authors # <<>> /\ authors[1].email = auHeap[r].email)

(* C11: one AuthorInfo per distinct email among the author entries that
   pass the exclusion filter; resolvedAuthors of a commit holds, in order,
   for each of its entries that pass the filter the one object of the
   entry's email, so every commit shares it; the object's commits list
   holds the hash of a commit, once, exactly when the entry at index 0 of
   that commit passes the filter and has this email. *)
C11_SharedRecordPerEmail ==
    MapBuilt =>
       /\ OnePerEmail
       /\ \A ci \in DOMAIN auCommits :
             LET kept == SelectSeq(auCommits[ci].authors, Kept)
             IN /\ Len(auResolved[ci]) = Len(kept)
                /\ \A j \in 1..Len(kept) :
                      /\ auResolved[ci][j] \in DOMAIN auHeap
                      /\ auHeap[auResolved[ci][j]].email = kept[j].email
       /\ \A r \in DOMAIN auHeap, ci \in DOMAIN auCommits :
             LET authors == auCommits[ci].authors
             IN Credits(r, auCommits[ci].shortHash) =
                   IF /\ authors # <<>>
                      /\ Kept(authors[1])
                      /\ authors[1].email = auHeap[r].email
                   THEN 1 ELSE 0

\* ann is the author of h1 and a co-author of h2: one object, held by both
\* commits, credited with h1 only
C11_Witness ==
    /\ auPc = "done"
    /\ Len(auCommits) = 2
    /\ auCommits[1].authors =
          <<[name |-> <<"a", "n", "n">>, email |-> "ann@x.io"]>>
    /\ auCommits[2].authors =
          <<[name |-> <<"B", "o", "b">>, email |-> "bob@x.io"],
            [name |-> <<"a", "n", "n">>, email |-> "ann@x.io"]>>
    /\ auResolved = << <<1>>, <<2, 1>> >>
    /\ auHeap[1].commits = <<"h1">>
    /\ auHeap[2].commits = <<"h2">>

\* a name in lower case
LowerCase(name) == [i \in DOMAIN name |-> CaseFold(name[i])]

\* a name that holds [bot], dependabot or (bot), in whatever case
HasBotName(name) ==
    \E word \in {<<"[", "b", "o", "t", "]">>,
                 <<"d", "e", "p", "e", "n", "d", "a", "b", "o", "t">>,
                 <<"(", "b", "o", "t", ")">>} :
        \E i \in 1..(Len(name) + 1 - Len(word)) :
            SubSeq(LowerCase(name), i, i + Len(word) - 1) = word

\* an author that must not be listed
Unlisted(a) == HasBotName(a.name) \/ a.name = <<>> \/ a.email = ""

\* the objects of the returned list
Listed ==
    IF auResult.kind = "return"
    THEN {auResult.value[k] : k \in DOMAIN auResult.value}
    ELSE {}

(* C12: no AuthorInfo in any commit's resolvedAuthors or in the returned
   list has a bot name, or lacks a name or an email; and no author entry
   with a bot name, or without name or email, at whatever index of its
   commit, is the name and email of such an object. *)
C12_BotsExcluded ==
    MapBuilt =>
       LET held ==
               UNION {{auResolved[ci][j] : j \in DOMAIN auResolved[ci]} :
                         ci \in DOMAIN auResolved}
               \cup Listed
       IN /\ \A r \in held : ~Unlisted(auHeap[r])
          /\ \A ci \in DOMAIN auCommits : \A k \in DOMAIN auCommits[ci].authors :
                LET a == auCommits[ci].authors[k]
                IN Unlisted(a) =>
                      \A r \in held :
                          ~(auHeap[r].name = a.name /\ auHeap[r].email = a.email)

\* a bot is the first author of a commit and a person its co-author: only
\* the person is held and listed
C12_Witness ==
    /\ auPc = "done"
    /\ Len(auCommits) = 1
    /\ auCommits[1].authors =
          <<[name |-> <<"[", "B", "o", "t", "]">>, email |-> "ann@x.io"],
            [name |-> <<"B", "o", "b">>, email |-> "bob@x.io"]>>
    /\ auResolved = << <<1>> >>
    /\ auHeap[1].name = <<"B", "o", "b">>
    /\ auResult = Returned(<<1>>)

\* resolveAuthors has returned a list
ListReturned == auPc = "done" /\ auResult.kind = "return"

\* the objects of the returned list, in order
ReturnedList == [k \in DOMAIN auResult.value |-> auHeap[auResult.value[k]]]

(* C13: the returned list holds no two records with the same non-empty
   login and no two records without login that have the same name. *)
C13_NoDuplicates ==
    ListReturned =>
       \A i, j \in DOMAIN ReturnedList :
          i # j =>
             LET a == ReturnedList[i]
                 b == ReturnedList[j]
             IN /\ (LoginTruthy(a.login) /\ LoginTruthy(b.login))
                      => a.login.val # b.login.val
                /\ (~LoginTruthy(a.login) /\ ~LoginTruthy(b.login))
                      => a.name # b.name

\* two authors with different emails were both resolved to the login amy:
\* one of the two records is returned
C13_Witness ==
    /\ ListReturned
    /\ Len(auHeap) = 2
    /\ auHeap[1].login = Login(<<"a", "m", "y">>)
    /\ auHeap[2].login = Login(<<"a", "m", "y">>)
    /\ auHeap[1].email # auHeap[2].email
    /\ Len(auResult.value) = 1

\* two records the filter takes for the same contributor
SharesKey(a, b) ==
    \/ LoginTruthy(a.login) /\ LoginTruthy(b.login) /\ a.login.val = b.login.val
    \/ ~LoginTruthy(a.login) /\ ~LoginTruthy(b.login) /\ a.name = b.name

\* the sort order of two objects: by localeCompare of login-or-name, and
\* by their order in the Map where the keys compare equal
SortsBefore(q, r) ==
    LET c == localeCompare(SortKey(auHeap[q]), SortKey(auHeap[r]))
    IN c < 0 \/ (c = 0 /\ q < r)

(* C14: the returned list is in ascending localeCompare order of the key
   login-if-set-otherwise-name; a record is returned exactly when no
   record with the same login (or, both lacking a login, the same name)
   comes before it in the sort order. *)
C14_SortedFirstKept ==
    ListReturned =>
       /\ \A i, j \in DOMAIN auResult.value :
             i < j => SortsBefore(auResult.value[i], auResult.value[j])
       /\ \A r \in DOMAIN auHeap :
             r \in Listed <=>
                ~\E q \in DOMAIN auHeap :
                     /\ q # r
                     /\ SharesKey(auHeap[q], auHeap[r])
                     /\ SortsBefore(q, r)

\* Bob entered the Map before ann and neither has a login: ann is returned
\* first
C14_Witness ==
    /\ ListReturned
    /\ Len(auHeap) = 2
    /\ auHeap[1].name = <<"B", "o", "b">>
    /\ auHeap[2].name = <<"a", "n", "n">>
    /\ auHeap[1].login = NoLogin
    /\ auHeap[2].login = NoLogin
    /\ auResult.value = <<2, 1>>

\* the requests sent for an object, in order
RequestsOf(info) == SelectSeq(auRequests, LAMBDA q : q.info = info)

\* a request sent for the object has failed
LookupFailed(info) ==
    \E k \in DOMAIN auRequests :
        auRequests[k].info = info /\ auRequests[k].outcome = "error"

(* C19 as stated: resolveAuthors does not fail, and a record for which a
   lookup failed keeps its login unset and is listed all the same. *)
C19_AsStated ==
    auPc = "done" =>
       /\ auResult.kind = "return"
       /\ \A r \in DOMAIN auHeap :
             LookupFailed(r) =>
                /\ ~LoginTruthy(auHeap[r].login)
                /\ r \in Listed

(* C19: no failed lookup makes resolveAuthors or a resolveAuthorInfo call
   fail; the pass completes for every record; a failed request assigns no
   login, so a record has a login only when the last request sent for it
   succeeded; and a record left without login after a failure is listed
   under its name unless a record without login and with the same name
   comes before it in the sort order. *)
C19_LookupFailuresSwallowed ==
    /\ auResult.kind # "throw"
    /\ \A r \in DOMAIN auLookup : auLookup[r] # "rejected"
    /\ auPc = "done" =>
          /\ auResult.kind = "return"
          /\ \A r \in DOMAIN auHeap :
                /\ auLookup[r] = "done"
                /\ LET sent == RequestsOf(r)
                   IN LoginTruthy(auHeap[r].login) =>
                         /\ sent # <<>>
                         /\ sent[Len(sent)].outcome = "ok"
                /\ (LookupFailed(r) /\ ~LoginTruthy(auHeap[r].login)) =>
                      \/ r \in Listed
                      \/ \E q \in DOMAIN auHeap :
                            /\ q # r
                            /\ ~LoginTruthy(auHeap[q].login)
                            /\ auHeap[q].name = auHeap[r].name
                            /\ SortsBefore(q, r)

\* the search and the commit detail failed for the first record and the
\* second was resolved: both are listed, the first without login
C19_Witness ==
    /\ ListReturned
    /\ Len(auHeap) = 2
    /\ [k \in DOMAIN RequestsOf(1) |->
           <<RequestsOf(1)[k].kind, RequestsOf(1)[k].outcome>>]
          = <<(<<"users", "error">>), (<<"commit", "error">>)>>
    /\ auHeap[1].login = NoLogin
    /\ auHeap[2].login = Login(<<"a", "m", "y">>)
    /\ Listed = {1, 2}

(* C20: without a token resolveAuthors sends no request, raises no error,
   leaves every record it made without login and returns. *)
C20_NoTokenNoLookup ==
    ~Truthy(auToken) =>
       /\ auRequests = <<>>
       /\ auResult.kind # "throw"
       /\ MapBuilt =>
             \A r \in DOMAIN auHeap :
                 /\ auHeap[r].login = NoLogin
                 /\ auLookup[r] = "done"
       /\ auPc = "done" =>
             /\ auResult.kind = "return"
             /\ \A k \in DOMAIN ReturnedList : ReturnedList[k].login = NoLogin

\* the token is the empty string and two commits have credited authors:
\* both are returned, no request was sent
C20_Witness ==
    /\ ListReturned
    /\ auToken = Str("")
    /\ Len(auHeap) = 2
    /\ auHeap[1].commits # <<>>
    /\ auHeap[2].commits # <<>>
    /\ Len(auResult.value) = 2
    /\ auRequests = <<>>

--------------------------------------------------------------------------
(* sendRelease of the GitLab adapter on its own *)

SendReleaseInit ==
    /\ glReleases \in {{}, {ReleaseTag}}
    /\ localProjectId \in {NoProjectId, FetchedProjectId}
    /\ srCalls = 0
    /\ srPc = "idle"
    /\ srWrite = NoWrite
    /\ srRequests = <<>>
    /\ srResults = <<>>
    /\ RunIdle
    /\ NormIdle
    /\ GwIdle
    /\ AuthorsIdle
    /\ UploadIdle
    /\ ProjectIdIdle
    /\ ConfigIdle
    /\ CliIdle
    /\ ExecuteIdle
    /\ HasTagIdle

SendReleaseNext ==
    \/ SendReleaseCalled
    \/ SendReleaseProjectSettles
    \/ ExistingReleaseSettles
    \/ WriteReleaseSettles

SpecSendRelease == SendReleaseInit /\ [][SendReleaseNext]_vars

--------------------------------------------------------------------------
(* uploadAssets of the GitLab adapter on its own *)

\* asset patterns: a file name and a wildcard
AssetPatterns == {<<"a">>, <<"*">>}

\* the assets argument: lists of patterns and their comma-joined strings
UploadInputs ==
    {AssetArray(l) : l \in SeqsUpTo(AssetPatterns, MaxUploadPatterns)}
    \cup {AssetString(Join(l)) : l \in SeqsUpTo(AssetPatterns, MaxUploadPatterns)}

UploadInit ==
    /\ upAssets \in UploadInputs
    /\ localProjectId \in {NoProjectId, FetchedProjectId}
    /\ upPc = "called"
    /\ upList = <<>>
    /\ upExpanded = <<>>
    /\ upIndex = 0
    /\ upSteps = <<>>
    /\ upLinks = <<>>
    /\ upResult = Pending
    /\ upPut = NoPut
    /\ RunIdle
    /\ NormIdle
    /\ GwIdle
    /\ AuthorsIdle
    /\ SendReleaseIdle
    /\ ProjectIdIdle
    /\ ConfigIdle
    /\ CliIdle
    /\ ExecuteIdle
    /\ HasTagIdle

UploadNext ==
    \/ UploadAssetsCalled
    \/ UploadProjectSettles
    \/ GlobSettles
    \/ ReadFileSettles
    \/ UploadFileSettles
    \/ ReleaseFetchSettles
    \/ ReleaseUpdateSettles

SpecUpload == UploadInit /\ [][UploadNext]_vars


\* the write requests (POST or PUT) of a call
WritesOf(call) ==
    {k \in DOMAIN srRequests :
        srRequests[k].call = call /\ srRequests[k].method \in {"POST", "PUT"}}

\* the calls that have settled and whose project id was resolved
SettledCalls ==
    {c \in 1..Len(srResults) :
        \E k \in DOMAIN srRequests :
            srRequests[k].call = c /\ srRequests[k].url = ReleaseUrl(ReleaseTag)}

(* C15: a sendRelease call sends exactly one write request: a POST to the
   releases collection when GitLab has no release for the tag, a PUT to
   the release of the tag when it has one. *)
C15_OneWritePerCall ==
    \A c \in SettledCalls :
       /\ Cardinality(WritesOf(c)) = 1
       /\ \A k \in WritesOf(c) :
             IF srRequests[k].existed
             THEN /\ srRequests[k].method = "PUT"
                  /\ srRequests[k].url = ReleaseUrl(ReleaseTag)
             ELSE /\ srRequests[k].method = "POST"
                  /\ srRequests[k].url = ReleasesUrl

(* C16: over the sendRelease calls for the tag a POST is sent only while
   GitLab has no release for the tag, and at most one POST is accepted. *)
C16_CreateOnlyWhenAbsent ==
    /\ \A k \in DOMAIN srRequests :
          srRequests[k].method = "POST" => ~srRequests[k].existed
    /\ Cardinality({k \in DOMAIN srRequests :
                       /\ srRequests[k].method = "POST"
                       /\ srRequests[k].outcome = "ok"}) <= 1

\* the paths of the steps of one kind, in order
PathsOf(step) ==
    LET steps == SelectSeq(upSteps, LAMBDA s : s.step = step)
    IN [k \in DOMAIN steps |-> steps[k].path]

\* the paths of the steps of one kind that went well, in order
PathsDone(step) ==
    LET steps == SelectSeq(upSteps,
                           LAMBDA s : s.step = step /\ s.outcome = "ok")
    IN [k \in DOMAIN steps |-> steps[k].path]

\* every pattern has been expanded
GlobsDone == upPc \in {"read", "upload", "release", "update", "done"}

(* C17: every entry of the normalized asset list is expanded in turn; an
   entry that matches no file, or whose expansion fails, is itself put in
   the list of paths to upload, so every entry gives at least one path;
   and when uploadAssets returns, each path of that list has been read
   and, its read succeeding, posted. *)
C17_UnmatchedKeptLiteral ==
    /\ GlobsDone =>
          /\ PathsOf("glob") = AssetListOf(upAssets)
          /\ Len(upExpanded) >= Len(AssetListOf(upAssets))
          /\ \A k \in DOMAIN upSteps :
                (upSteps[k].step = "glob"
                    /\ upSteps[k].outcome \in {"none", "error"})
                => \E i \in DOMAIN upExpanded : upExpanded[i] = upSteps[k].path
    /\ upPc = "done" =>
          \A k \in DOMAIN upSteps :
             (upSteps[k].step = "glob"
                 /\ upSteps[k].outcome \in {"none", "error"})
             => /\ \E j \in DOMAIN upSteps :
                      /\ j > k
                      /\ upSteps[j].step = "read"
                      /\ upSteps[j].path = upSteps[k].path
                /\ \A j \in DOMAIN upSteps :
                      (upSteps[j] = UpStep("read", upSteps[k].path, "ok"))
                      => /\ j < Len(upSteps)
                         /\ upSteps[j + 1].step = "upload"
                         /\ upSteps[j + 1].path = upSteps[k].path

\* the pattern a matches no file: the path a is read and posted
C17_Witness ==
    /\ upPc = "done"
    /\ upAssets = AssetString(<<"a">>)
    /\ upExpanded = << <<"a">> >>
    /\ \E k \in DOMAIN upSteps : upSteps[k] = UpStep("glob", <<"a">>, "none")
    /\ \E k \in DOMAIN upSteps : upSteps[k] = UpStep("upload", <<"a">>, "ok")

(* C18: uploadAssets fails only when the project id cannot be fetched,
   before any file is touched; otherwise it returns, and by then every
   expanded path has been read, in order, and every path whose read
   succeeded has been posted, whatever became of the other paths. *)
C18_FileFailuresContained ==
    /\ upPc # "failed" \/ upSteps = <<UpStep("project", <<>>, "error")>>
    /\ upResult.kind = "throw" => upPc = "failed"
    /\ upPc = "done" =>
          /\ upResult = Returned(Undefined)
          /\ PathsOf("read") = upExpanded
          /\ PathsOf("upload") = PathsDone("read")
          /\ upLinks = PathsDone("upload")

\* the wildcard matches f and g: f cannot be read, the upload of g fails,
\* and the next path is still read and posted
C18_Witness ==
    /\ upPc = "done"
    /\ upExpanded = << <<"f">>, <<"g">>, <<"a">> >>
    /\ \E k \in DOMAIN upSteps : upSteps[k] = UpStep("read", <<"f">>, "error")
    /\ \E k \in DOMAIN upSteps : upSteps[k] = UpStep("upload", <<"g">>, "error")
    /\ upLinks = << <<"a">> >>


--------------------------------------------------------------------------
(* The project id cache across the operations of the GitLab adapter *)

\* the requests of getProjectId sent for the records of resolveAuthors
ProjectRequests == {k \in DOMAIN auRequests : auRequests[k].kind = "project"}

\* the process started with a cached id: the cache holds one that no
\* request of this process answered
CachedFromEnvironment ==
    /\ IsCached(localProjectId)
    /\ \A k \in ProjectRequests : auRequests[k].outcome # "ok"

(* C21: the project id is resolved once per process: over every
   interleaving of the login lookups at most one project request is sent,
   and none when GITLAB_PROJECT_ID gave the id. *)
C21_ResolvedOnce ==
    /\ Cardinality(ProjectRequests) <= 1
    /\ CachedFromEnvironment => ProjectRequests = {}


\* the requests that have not settled
PendingRequests == {k \in DOMAIN auRequests : auRequests[k].outcome = "pending"}

(* C22: the list is sorted and filtered only when every login lookup has
   settled, by success or by failure: when resolveAuthors has returned no
   lookup and no request is pending; and the lookups are started together:
   with a token the first requests of the log are the searches of all the
   records, sent before any of them has settled. *)
C22_SortAfterAllSettle ==
    /\ auPc = "done" =>
          /\ \A r \in DOMAIN auLookup : auLookup[r] \in {"done", "rejected"}
          /\ PendingRequests = {}
    /\ (MapBuilt /\ Truthy(auToken)) =>
          /\ Len(auRequests) >= Len(auHeap)
          /\ \A r \in DOMAIN auHeap :
                /\ auRequests[r].kind = "users"
                /\ auRequests[r].info = r
    /\ auPc = "called" => auRequests = <<>>

\* two records: the search of the second settles first and fails, then its
\* commit detail answers, and only then the search of the first settles;
\* the list is returned with both
C22_Witness ==
    /\ ListReturned
    /\ Len(auHeap) = 2
    /\ Len(auRequests) = 3
    /\ [k \in DOMAIN auRequests |->
           <<auRequests[k].kind, auRequests[k].info, auRequests[k].outcome>>]
          = <<(<<"users", 1, "ok">>), (<<"users", 2, "error">>),
              (<<"commit", 2, "ok">>)>>
    /\ Len(auResult.value) = 2

--------------------------------------------------------------------------
(* getProjectId of the GitLab adapter on its own *)

\* characters of GITLAB_PROJECT_ID
EnvChars == {"7", "x", "-", " "}

EnvValues == {NoEnv} \cup {EnvString(s) : s \in SeqsUpTo(EnvChars, MaxEnvLen)}

ProjectIdInit ==
    /\ pidEnv \in EnvValues
    /\ localProjectId = LoadedCache(pidEnv)
    /\ pidCalls = <<>>
    /\ pidLog = <<>>
    /\ RunIdle
    /\ NormIdle
    /\ GwIdle
    /\ AuthorsIdle
    /\ SendReleaseIdle
    /\ UploadIdle
    /\ ConfigIdle
    /\ CliIdle
    /\ ExecuteIdle
    /\ HasTagIdle

ProjectIdNext ==
    \/ GetProjectIdCalled
    \/ GetProjectIdSettles

SpecProjectId == ProjectIdInit /\ [][ProjectIdNext]_vars

\* the call has sent a request
Requested(call) == \E k \in DOMAIN pidLog : pidLog[k] = PidEvent(call, "request")

(* C28: once a getProjectId call has returned an id, every call made
   later returns that id and sends no request. *)
C28_CachedForProcess ==
    \A i, j \in DOMAIN pidLog :
       (i < j /\ pidLog[i].what = "returned" /\ pidLog[j].what = "called")
       => /\ ~Requested(pidLog[j].call)
          /\ pidCalls[pidLog[j].call].result
                = pidCalls[pidLog[i].call].result

(* C29: an id that getProjectId returns is the id of options.releaseRepo
   of that call, whatever repository the calls before it named; the
   processes that were given an id in GITLAB_PROJECT_ID are left out. *)
C29_IdOfNamedRepository ==
    ~IsCached(LoadedCache(pidEnv)) =>
       \A call \in DOMAIN pidCalls :
          pidCalls[call].result.kind = "return"
          => pidCalls[call].result.value = IdOf(pidCalls[call].repo)

\* the events of the log of one kind
EventsOf(what) == {k \in DOMAIN pidLog : pidLog[k].what = what}

\* the call made next after the event
NextCalled(i) ==
    {j \in EventsOf("called") :
        i < j /\ \A k \in EventsOf("called") : ~(i < k /\ k < j)}

(* C34 as stated: the call made next after a failed getProjectId call
   sends the lookup request again. *)
C34_AsStated ==
    \A i \in EventsOf("failed") :
        \A j \in NextCalled(i) : Requested(pidLog[j].call)

(* C34: the cache holds no value or a number, never anything else; while
   no call has returned an id the cache is as the process loaded it,
   however many calls have failed; and a call made after a failed call
   sends the lookup request again unless the cache was filled at load or
   a call has returned an id before it. *)
C34_FailureLeavesCache ==
    /\ localProjectId.type \in {"undefined", "number"}
    /\ EventsOf("returned") = {} => localProjectId = LoadedCache(pidEnv)
    /\ \A i \in EventsOf("failed") :
          /\ ~IsCached(LoadedCache(pidEnv))
          /\ pidCalls[pidLog[i].call].result.kind = "throw"
          /\ \A j \in EventsOf("called") :
                (i < j /\ \A r \in EventsOf("returned") : j < r)
                => Requested(pidLog[j].call)

\* the first call fails; the second, made after it, sends the request
\* again and returns the id
C34_Witness ==
    /\ Len(pidLog) = 6
    /\ [k \in DOMAIN pidLog |-> pidLog[k].what]
          = <<"called", "request", "failed", "called", "request", "returned">>
    /\ pidLog[4].call = 2
    /\ pidCalls[1].result.kind = "throw"
    /\ localProjectId = IdOf(pidCalls[2].repo)

--------------------------------------------------------------------------
(* The asset links of the release description *)

\* the steps of one kind that have settled
StepsOf(step) == {k \in DOMAIN upSteps : upSteps[k].step = step}

\* the release has been requested for the links
FetchSent == upPc = "release" \/ StepsOf("release") # {}

\* the PUT of the description has been sent
PutSent == upPc = "update" \/ StepsOf("update") # {}

(* C30: uploadAssets requests the release to update its description if
   and only if a file upload succeeded, and after every upload has
   settled; the PUT follows when that request succeeds and its body is the
   description of the release, the heading '## Assets' and one link for
   each uploaded file, in upload order; whether the fetch or the PUT fails
   or not, uploadAssets returns. *)
C30_LinksIffUploaded ==
    /\ FetchSent =>
          /\ PathsDone("upload") # <<>>
          /\ PathsOf("read") = upExpanded
          /\ \A k \in StepsOf("upload"), r \in StepsOf("release") : k < r
    /\ (upPc = "done" /\ PathsDone("upload") # <<>>) => StepsOf("release") # {}
    /\ Cardinality(StepsOf("release")) <= 1
    /\ Cardinality(StepsOf("update")) <= 1
    /\ PutSent <=> \E r \in StepsOf("release") : upSteps[r].outcome = "ok"
    /\ IF PutSent
       THEN upPut = [description |-> "notes", heading |-> "## Assets",
                     links |-> [k \in DOMAIN PathsDone("upload") |->
                                   [name |-> PathsDone("upload")[k]]]]
       ELSE upPut = NoPut
    /\ (FetchSent /\ upPc = "done") => upResult = Returned(Undefined)
    /\ upResult.kind = "throw" => ~FetchSent

\* f and a are uploaded, the upload of g fails: the PUT links f and a, in
\* this order, it fails and uploadAssets returns
C30_Witness ==
    /\ upPc = "done"
    /\ PathsOf("upload") = << <<"f">>, <<"g">>, <<"a">> >>
    /\ PathsDone("upload") = << <<"f">>, <<"a">> >>
    /\ upPut.links = <<[name |-> <<"f">>], [name |-> <<"a">>]>>
    /\ upSteps[Len(upSteps)] = UpStep("update", <<>>, "error")
    /\ upResult = Returned(Undefined)

--------------------------------------------------------------------------
(* performRelease: failure and order of the provider calls *)

\* the sendRelease call of the run has failed
SendReleaseFailed ==
    HasSettled("sendRelease", "error") \/ HasSettled("sendRelease", "throw")

(* C26: when sendRelease fails, performRelease ends at once by throwing
   that error: uploadAssets is not called, no result is returned, and
   sendRelease was called this one time only. *)
C26_SendReleaseFailureSurfaces ==
    SendReleaseFailed =>
       /\ Done
       /\ result.kind = "throw"
       /\ result.value.name \in {"FetchError", "TypeError", "Error"}
       /\ ~ReturnedOutcome("released")
       /\ ~Invoked("uploadAssets")
       /\ TimesInvoked("sendRelease") = 1
       /\ calls[Len(calls)].op = "sendRelease"
       /\ settled[Len(settled)].op = "sendRelease"

\* sendRelease of the GitLab adapter rejects in a run that asked for assets
C26_Witness ==
    /\ Done
    /\ HasSettled("sendRelease", "error")
    /\ context.config.repoProvider = Str("gitlab")
    /\ normalizeAssets(AssetsInput(context, options)) # <<>>
    /\ result = Thrown(AdapterError("gitlab", "sendRelease"))

--------------------------------------------------------------------------
(* performRelease with the uploadAssets of the GitLab adapter *)

\* the adapter the gateway hands uploadAssets to
UploadAdapter ==
    GatewaySelect("uploadAssets", context.config.repoProvider).adapter

UploadSettled_Started(position) == position # "idle"

\* the promise of the adapter's uploadAssets has settled
UploadSettled(position) == position \in {"done", "failed"}

\* the gateway hands the call to the GitLab adapter; sendRelease of the
\* adapter has returned, so getProjectId has filled the cache
GitLabUploadBegins ==
    /\ pc = "uploadAssets"
    /\ UploadAdapter = "gitlab"
    /\ upPc = "idle"
    /\ upPc' = "called"
    /\ upAssets' = calls[Len(calls)].arg
    /\ localProjectId' = FetchedProjectId
    /\ UNCHANGED <<upList, upExpanded, upIndex, upSteps, upLinks, upResult,
                   upPut>>
    /\ UNCHANGED OutsideUpload

\* await uploadAssets(config, assetsInput) settles as the adapter's call
GitLabUploadSettles ==
    /\ pc = "uploadAssets"
    /\ UploadAdapter = "gitlab"
    /\ UploadSettled(upPc)
    /\ LET normalizedAssets == normalizeAssets(AssetsInput(context, options))
       IN IF upResult.kind = "throw"
          THEN /\ Settle("uploadAssets", "error")
               /\ Finish(upResult)
          ELSE /\ Settle("uploadAssets", "ok")
               /\ Finish(Returned(ReleaseResult(
                            "released", Undefined,
                            UploadedAssets(normalizedAssets))))
    /\ UNCHANGED <<context, options, clone, calls, writes, stored>>
    /\ UNCHANGED OutsideRun

\* uploadAssets of another adapter settles
OtherUploadSettles ==
    /\ UploadAdapter # "gitlab"
    /\ UploadAssetsSettles

\* the request of getProjectId is left out: the cache is filled when
\* uploadAssets is reached
ReleaseUploadNext ==
    \/ Start
    \/ WriteFileSettles
    \/ HasTagSettles
    \/ IsRepoShallowSettles
    \/ SendReleaseSettles
    \/ OtherUploadSettles
    \/ GitLabUploadBegins
    \/ UploadAssetsCalled
    \/ GlobSettles
    \/ ReadFileSettles
    \/ UploadFileSettles
    \/ ReleaseFetchSettles
    \/ ReleaseUpdateSettles
    \/ GitLabUploadSettles

SpecReleaseUpload == Init /\ [][ReleaseUploadNext]_vars

\* the provider operations called so far, in call order
NetworkCalls ==
    LET made == SelectSeq(calls, LAMBDA c : c.op \in NetworkOps)
    IN [k \in DOMAIN made |-> made[k].op]

\* the calls that have settled
CallsSettled == Cardinality({k \in DOMAIN settled : settled[k].op # "writeFile"})

\* the adapter's uploadAssets is at work
UploadUnderWay == upPc \notin {"idle", "done", "failed"}

(* C27: the provider operations of a run are called in the order hasTag,
   sendRelease, uploadAssets, each at most once, one at a time, sendRelease
   only after hasTag answered true and uploadAssets only after sendRelease
   succeeded; the reads and requests of the GitLab uploadAssets happen
   between its call and its settlement, and every file upload precedes the
   fetch and the PUT of the release description. *)
C27_SequentialOrder ==
    /\ \E n \in 0..3 :
          NetworkCalls = SubSeq(<<"hasTag", "sendRelease", "uploadAssets">>, 1, n)
    /\ Len(calls) - CallsSettled \in {0, 1}
    /\ Done => Len(calls) = CallsSettled
    /\ Invoked("sendRelease") => HasSettled("hasTag", "true")
    /\ Invoked("uploadAssets") => HasSettled("sendRelease", "ok")
    /\ upPc # "idle" =>
          /\ Invoked("uploadAssets")
          /\ UploadAdapter = "gitlab"
    /\ UploadUnderWay =>
          /\ pc = "uploadAssets"
          /\ result = Pending
          /\ Len(calls) - CallsSettled = 1
    /\ \A k \in StepsOf("upload") :
          \A r \in StepsOf("release") \cup StepsOf("update") : k < r
    /\ \A r \in StepsOf("release") : \A u \in StepsOf("update") : r < u
    /\ (upPc \in {"release", "update"}) => PathsOf("read") = upExpanded

\* a GitLab run: the tag is there, the release is sent, a file is uploaded
\* and linked, and the run returns 'released'
C27_Witness ==
    /\ Done
    /\ ReturnedOutcome("released")
    /\ context.config.repoProvider = Str("gitlab")
    /\ NetworkCalls = <<"hasTag", "sendRelease", "uploadAssets">>
    /\ settled[Len(settled)] = [op |-> "uploadAssets", outcome |-> "ok"]
    /\ \E k \in StepsOf("upload") : upSteps[k].outcome = "ok"
    /\ \E u \in StepsOf("update") : upSteps[u].outcome = "ok"

--------------------------------------------------------------------------
(* generate and resolveConfig on their own *)

\* the config loadConfig answers: options over the config file over the
\* defaults, which name the provider github
LoadedConfigs ==
    [baseUrl : {Undefined, Str(""), Str("test.github.com")},
     baseUrlApi : {Undefined, Str(""), Str("api.test.github.com")},
     repoProvider : {Str("github"), Str("gitlab"), Str(""), Str("bitbucket")},
     repo : {Undefined, Str(""), Str("user/changelogits"), ObjectValue},
     github : {Undefined, Str("owner/gh")},
     gitlab : {Undefined, Str("group/gl")},
     contributors : BOOLEAN]

ConfigInit ==
    /\ cfgLoaded \in LoadedConfigs
    /\ cfgConfig = cfgLoaded
    /\ cfgPc = "called"
    /\ cfgLog = <<>>
    /\ cfgResult = Pending
    /\ RunIdle
    /\ NormIdle
    /\ GwIdle
    /\ CacheIdle
    /\ AuthorsIdle
    /\ SendReleaseIdle
    /\ UploadIdle
    /\ ProjectIdIdle
    /\ CliIdle
    /\ ExecuteIdle
    /\ HasTagIdle

ConfigNext ==
    \/ GenerateCalled
    \/ GitRefsSettle
    \/ GetGitRepoSettles
    \/ GetGitDiffSettles
    \/ GenerateAuthorsSettle
    \/ ReleaseFollows

SpecConfig == ConfigInit /\ [][ConfigNext]_vars

\* resolveConfig has set baseUrl and baseUrlApi
UrlsSet == cfgPc \notin {"idle", "called"}

\* resolveConfig has returned: generate has gone on to getGitDiff
ConfigResolved == \E k \in DOMAIN cfgLog : cfgLog[k] = "getGitDiff"

\* the base url and the api url of the provider the config names
DomainsOf(repoProvider) ==
    IF repoProvider = Str("gitlab")
    THEN <<Str("https://gitlab.com"), Str("https://gitlab.com/api/v4")>>
    ELSE <<Str("https://github.com"), Str("https://api.github.com")>>

(* C23: resolveConfig sets baseUrl and baseUrlApi from repoProvider, github
   standing for an empty one, exactly when they are not given; a given
   baseUrl or baseUrlApi, and a given non-empty repo string, are in the
   config it returns as they were given. *)
C23_UrlsDerivedUnlessGiven ==
    /\ UrlsSet =>
          /\ cfgLoaded.baseUrl # Undefined =>
                cfgConfig.baseUrl = cfgLoaded.baseUrl
          /\ cfgLoaded.baseUrlApi # Undefined =>
                cfgConfig.baseUrlApi = cfgLoaded.baseUrlApi
          /\ cfgLoaded.repoProvider \in {Str("github"), Str("gitlab"), Str("")} =>
                /\ cfgLoaded.baseUrl = Undefined =>
                      cfgConfig.baseUrl = DomainsOf(cfgLoaded.repoProvider)[1]
                /\ cfgLoaded.baseUrlApi = Undefined =>
                      cfgConfig.baseUrlApi = DomainsOf(cfgLoaded.repoProvider)[2]
    /\ (ConfigResolved /\ Truthy(cfgLoaded.repo)) =>
          cfgConfig.repo = cfgLoaded.repo
    /\ cfgResult.kind = "return" =>
          /\ ConfigResolved
          /\ cfgResult.value = cfgConfig

\* baseUrl is given empty and baseUrlApi is not given, for gitlab: the
\* first is kept, the second is set, the given repo is returned
C23_Witness ==
    /\ cfgResult.kind = "return"
    /\ cfgLoaded.repoProvider = Str("gitlab")
    /\ cfgLoaded.baseUrl = Str("")
    /\ cfgLoaded.baseUrlApi = Undefined
    /\ cfgLoaded.repo = Str("user/changelogits")
    /\ cfgResult.value.baseUrl = Str("")
    /\ cfgResult.value.baseUrlApi = Str("https://gitlab.com/api/v4")
    /\ cfgResult.value.repo = Str("user/changelogits")


\* the calls of generate and of its caller that reach the provider: the
\* release calls hasTag, sendRelease and uploadAssets
ProviderCalls ==
    {k \in DOMAIN cfgLog : cfgLog[k] \in {"resolveAuthors", "release"}}

\* what config.repo resolves to from the options alone
IsRepoString(repo) == repo.type = "string" /\ repo.val # ""

(* C24: resolveConfig returns only a config whose repo is a non-empty
   string: it fails when the repository given is no string and when none
   is given and git names none; and when it fails generate fails with it
   before getGitDiff and before any provider operation, and the release
   does not follow. *)
C24_ConfigFailsBeforeNetwork ==
    /\ ConfigResolved => IsRepoString(cfgConfig.repo)
    /\ (cfgPc \notin {"called", "refs"} /\ RepoGiven(cfgLoaded) = ObjectValue) =>
          /\ cfgPc = "done"
          /\ cfgResult.kind = "throw"
          /\ ~ConfigResolved
    /\ ~ConfigResolved =>
          /\ ProviderCalls = {}
          /\ cfgResult.kind # "return"
          /\ cfgPc \in {"called", "refs", "getGitRepo", "done"}
    /\ \A k \in ProviderCalls : \E j \in 1..(k - 1) : cfgLog[j] = "getGitDiff"
    /\ cfgPc = "done" => (cfgResult.kind = "throw" <=> cfgLog[Len(cfgLog)] # "release")

\* an object is given for repo: generate fails with the error of
\* resolveConfig and has only asked git for the refs
C24_Witness ==
    /\ cfgPc = "done"
    /\ cfgLoaded.repo = ObjectValue
    /\ cfgLoaded.contributors
    /\ cfgResult = Thrown(InvalidRepositoryError(ObjectValue))
    /\ cfgLog = <<"git refs">>

--------------------------------------------------------------------------
(* The token of the command line on its own *)

\* a token longer than a path may be, with a separator in it
LongToken == EnvString([i \in 1..512 |-> IF i = 2 THEN "/" ELSE "t"])

\* --token: absent, empty, a token, two paths, a long token, a number
ArgTokens ==
    {NoEnv, EnvString(<<>>), EnvString(<<"t", "k">>), EnvString(<<"d", "/", "t">>),
     EnvString(<<"d", "\\", "t">>), LongToken, TokenNumber,
     TokenZero}

\* the values of a variable of the environment: unset, empty, or set to
\* characters that name the variable
EnvValuesOf(name) ==
    IF name \in {"GITLAB_PRIVATE_TOKEN_PATH", "GITHUB_TOKEN_PATH"}
    THEN {NoEnv, EnvString(<<name>>)}
    ELSE {NoEnv, EnvString(<<>>), EnvString(<<name>>)}

Environments ==
    [GITLAB_TOKEN : EnvValuesOf("GITLAB_TOKEN"),
     GITLAB_PRIVATE_TOKEN : EnvValuesOf("GITLAB_PRIVATE_TOKEN"),
     GITLAB_TOKEN_PATH : EnvValuesOf("GITLAB_TOKEN_PATH"),
     GITLAB_PRIVATE_TOKEN_PATH : EnvValuesOf("GITLAB_PRIVATE_TOKEN_PATH"),
     GITHUB_TOKEN : EnvValuesOf("GITHUB_TOKEN"),
     GITHUB_TOKEN_PATH : EnvValuesOf("GITHUB_TOKEN_PATH")]

CliInit ==
    /\ cliArgs \in [token : ArgTokens,
                    repoProvider : {Undefined, Str("github"), Str("gitlab"),
                                    Str("bitbucket")}]
    /\ cliEnv \in Environments
    /\ cliPc = "called"
    /\ cliToken = NoEnv
    /\ cliReads = <<>>
    /\ cliArgsToken = cliArgs.token
    /\ RunIdle
    /\ NormIdle
    /\ GwIdle
    /\ CacheIdle
    /\ AuthorsIdle
    /\ SendReleaseIdle
    /\ UploadIdle
    /\ ProjectIdIdle
    /\ ConfigIdle
    /\ ExecuteIdle
    /\ HasTagIdle

CliNext ==
    \/ CliActionCalled
    \/ ArgFileSettles
    \/ EnvFileSettles
    \/ AuthToolSettles

SpecCli == CliInit /\ [][CliNext]_vars

\* the token is found
TokenFound == cliPc = "done"

\* the answers of the reads of one kind, in order
AnswersOf(source) ==
    LET reads == SelectSeq(cliReads, LAMBDA r : r.source = source)
    IN [k \in DOMAIN reads |-> reads[k].answer]

\* the first non-empty string of a list, the empty string when there is none
RECURSIVE FirstNonEmpty(_)
FirstNonEmpty(list) ==
    IF list = <<>> THEN EnvString(<<>>)
    ELSE IF EnvTruthy(Head(list)) THEN Head(list)
    ELSE FirstNonEmpty(Tail(list))

\* the token variables and the path variables of the provider, in order
TokenNames(repoProvider) ==
    IF repoProvider = Str("gitlab") THEN <<"GITLAB_TOKEN", "GITLAB_PRIVATE_TOKEN">>
    ELSE <<"GITHUB_TOKEN">>

PathNames(repoProvider) ==
    IF repoProvider = Str("gitlab")
    THEN <<"GITLAB_TOKEN_PATH", "GITLAB_PRIVATE_TOKEN_PATH">>
    ELSE <<"GITHUB_TOKEN_PATH">>

ValuesOf(names) == [k \in DOMAIN names |-> cliEnv[names[k]]]

(* C25: a --token that is given (neither empty nor 0) is the token of the
   run whatever the environment holds, and is replaced only by the non-empty
   content of the file it names when it looks like a path; without it the token
   is the first non-empty of the token variables of the provider, then the
   content of the file the first set path variable names, then the answer
   of the command of the provider, each asked only when all before it are
   empty; when all are empty args.token is left as it was. *)
C25_TokenResolution ==
    TokenFound =>
       LET given == cliArgs.token
           provider == cliArgs.repoProvider
           envToken == FirstNonEmpty(ValuesOf(TokenNames(provider)))
           envPath == FirstNonEmpty(ValuesOf(PathNames(provider)))
           files == AnswersOf("file")
           tools == AnswersOf("tool")
       IN IF given \notin {NoEnv, EnvString(<<>>), TokenZero}
          THEN /\ tools = <<>>
               /\ Len(files) = (IF LooksLikePath(given) THEN 1 ELSE 0)
               /\ \A k \in DOMAIN cliReads : cliReads[k].name = given.val
               /\ cliArgsToken = IF EnvTruthy(FirstNonEmpty(files))
                                 THEN FirstNonEmpty(files) ELSE given
          ELSE /\ cliArgsToken =
                     IF EnvTruthy(FirstNonEmpty(<<envToken>> \o files \o tools))
                     THEN FirstNonEmpty(<<envToken>> \o files \o tools)
                     ELSE given
               /\ Len(files) = (IF ~EnvTruthy(envToken) /\ EnvTruthy(envPath)
                                THEN 1 ELSE 0)
               /\ \A k \in DOMAIN cliReads :
                     cliReads[k].source = "file" => cliReads[k].name = envPath.val
               /\ Len(tools) = (IF EnvTruthy(FirstNonEmpty(<<envToken>> \o files))
                                THEN 0 ELSE 1)
               /\ \A k \in DOMAIN cliReads :
                     cliReads[k].source = "tool" =>
                        cliReads[k].name = (IF provider = Str("gitlab")
                                            THEN <<"glab">> ELSE <<"gh">>)

\* GitLab without --token: GITLAB_TOKEN is empty and GITLAB_PRIVATE_TOKEN
\* unset, the file GITLAB_TOKEN_PATH names is blank, glab answers the token
C25_Witness ==
    /\ TokenFound
    /\ cliArgs = [token |-> NoEnv, repoProvider |-> Str("gitlab")]
    /\ cliEnv["GITLAB_TOKEN"] = EnvString(<<>>)
    /\ cliEnv["GITLAB_PRIVATE_TOKEN"] = NoEnv
    /\ cliEnv["GITHUB_TOKEN"] = EnvString(<<"GITHUB_TOKEN">>)
    /\ cliReads = <<[source |-> "file", name |-> <<"GITLAB_TOKEN_PATH">>,
                     answer |-> EnvString(<<>>)],
                    [source |-> "tool", name |-> <<"glab">>,
                     answer |-> EnvString(<<"@", "glab">>)]>>
    /\ cliArgsToken = EnvString(<<"@", "glab">>)

--------------------------------------------------------------------------
(* resolveAuthorInfo: the search by email and the commit detail *)

\* the requests of one kind sent for an object
RequestsOfKind(info, kind) ==
    SelectSeq(auRequests, LAMBDA q : q.info = info /\ q.kind = kind)

\* the search by email of the object has settled and found no user
SearchFoundNoUser(info) ==
    LET search == RequestsOfKind(info, "users")
    IN /\ search # <<>>
       /\ search[1].outcome # "pending"
       /\ ~LoginTruthy(search[1].answer)

\* the search by email of the object has found a user
SearchFoundUser(info) ==
    LET search == RequestsOfKind(info, "users")
    IN /\ search # <<>>
       /\ search[1].outcome = "ok"
       /\ LoginTruthy(search[1].answer)

(* C31 as stated: with a token, a record whose search by email found no
   user has the commit detail of its first commit queried and has the
   author name answered as login; a record whose search found a user has
   no commit detail queried. *)
C31_AsStated ==
    (auPc = "done" /\ Truthy(auToken)) =>
       \A r \in DOMAIN auHeap :
           LET detail == RequestsOfKind(r, "commit")
           IN /\ SearchFoundNoUser(r) =>
                    /\ Len(detail) = 1
                    /\ auHeap[r].login = detail[1].answer
              /\ SearchFoundUser(r) => detail = <<>>

(* C31: with a token every record has its email searched once.  When the
   search found a user the username is the login and no other request is
   sent for the record.  When it found none, or failed, a record without
   commits gets no other request and stays without login; a record with
   commits gets the commit detail of commits[0] queried once, after the
   project id was looked up when it is not cached and unless that lookup
   failed, and the author name of an answered commit detail is its login,
   a failed one leaving it without login. *)
C31_FallbackToFirstCommit ==
    (MapBuilt /\ Truthy(auToken)) =>
       \A r \in DOMAIN auHeap :
           LET sent == RequestsOf(r)
               detail == RequestsOfKind(r, "commit")
               project == RequestsOfKind(r, "project")
           IN /\ Len(RequestsOfKind(r, "users")) = 1
              /\ sent[1].kind = "users"
              /\ SearchFoundUser(r) =>
                    /\ Len(sent) = 1
                    /\ auHeap[r].login = sent[1].answer
              /\ SearchFoundNoUser(r) =>
                    IF auHeap[r].commits = <<>>
                    THEN /\ Len(sent) = 1
                         /\ auHeap[r].login = NoLogin
                    ELSE /\ Len(sent) = 1 + Len(project) + Len(detail)
                         /\ Len(project) + Len(detail) >= 1
                         /\ Len(project) <= 1
                         /\ Len(detail) <= 1
                         /\ \A k \in DOMAIN detail :
                               /\ detail[k].commit = auHeap[r].commits[1]
                               /\ sent[Len(sent)] = detail[k]
                               /\ \A p \in DOMAIN project :
                                     project[p].outcome = "ok"
                         /\ auHeap[r].login =
                               IF detail # <<>> /\ detail[1].outcome = "ok"
                               THEN detail[1].answer
                               ELSE NoLogin

\* the first author of both commits is found by no search: the commit
\* detail of the first of the two commits is queried and answers the login
C31_Witness ==
    /\ ListReturned
    /\ Truthy(auToken)
    /\ Len(auHeap) = 1
    /\ auHeap[1].commits = <<"h1", "h2">>
    /\ SearchFoundNoUser(1)
    /\ RequestsOfKind(1, "users")[1].outcome = "ok"
    /\ RequestsOfKind(1, "commit") =
          <<[kind |-> "commit", info |-> 1, commit |-> "h1", outcome |-> "ok",
             answer |-> Login(<<"a", "m", "y">>)]>>
    /\ auHeap[1].login = Login(<<"a", "m", "y">>)

--------------------------------------------------------------------------
(* release.ts: executeChangelog, and the performRelease it calls *)

ExecutionMode_PrintMdFirst(opts) ==
    IF opts.printMd THEN "print-md"
    ELSE IF opts.json THEN "json"
    ELSE "release"

\* if (options.json) ... if (options.printMd) ... else performRelease
ExecutionMode(opts) ==
    IF opts.json THEN "json"
    ELSE IF opts.printMd THEN "print-md"
    ELSE "release"

\* buildJsonPayload, the fields a context of the model has
buildJsonPayload(ctx, markdown) ==
    [md |-> markdown,
     to |-> ctx.config.to,
     repoProvider |-> ctx.config.repoProvider,
     commitsCount |-> Len(ctx.commits),
     compareUrl |-> ctx.compareUrl]

\* { context, markdown, mode, jsonPayload?, release? }
ExecuteChangelogResult(ctx, mode, jsonPayload, release) ==
    [context |-> ctx,
     markdown |-> sanitizeMarkdown(ctx.md),
     mode |-> mode,
     jsonPayload |-> jsonPayload,
     release |-> release]

\* { assets: options.assets }
PerformReleaseOptions(opts) == [assets |-> opts.assets]

\* what prepareRelease may resolve to
Contexts ==
    {prepareRelease(config, md, commits) :
        config \in Configs, md \in Markdowns, commits \in CommitLists}

\* generate rejects: the configuration, git or the provider failed
GenerateError == [name |-> "Error", message |-> "generate failed"]

\* executeChangelog is called and awaits prepareRelease
ExecuteChangelogCalled ==
    /\ exPc = "called"
    /\ exPc' = "prepareRelease"
    /\ UNCHANGED <<exOptions, exResult>>
    /\ UNCHANGED RunVars
    /\ UNCHANGED OutsideExecute

\* prepareRelease settles: executeChangelog throws what it threw, returns
\* the json or the markdown result, or calls performRelease
PrepareReleaseSettles ==
    /\ exPc = "prepareRelease"
    /\ \/ /\ exResult' = Thrown(GenerateError)
          /\ exPc' = "done"
          /\ UNCHANGED <<context, options, pc>>
       \/ \E ctx \in Contexts :
             /\ context' = ctx
             /\ LET mode == ExecutionMode(exOptions)
                IN IF mode = "json"
                   THEN /\ exResult' = Returned(ExecuteChangelogResult(ctx, mode,
                                          buildJsonPayload(ctx, sanitizeMarkdown(ctx.md)),
                                          Undefined))
                        /\ exPc' = "done"
                        /\ UNCHANGED <<options, pc>>
                   ELSE IF mode = "print-md"
                   THEN /\ exResult' = Returned(ExecuteChangelogResult(ctx, mode,
                                          Undefined, Undefined))
                        /\ exPc' = "done"
                        /\ UNCHANGED <<options, pc>>
                   ELSE /\ options' = PerformReleaseOptions(exOptions)
                        /\ pc' = "prepared"
                        /\ exPc' = "performRelease"
                        /\ UNCHANGED exResult
    /\ UNCHANGED <<exOptions, clone, calls, settled, writes, stored, result>>
    /\ UNCHANGED OutsideExecute

\* performRelease settles: its result is the release of the result, its
\* error the error of executeChangelog
PerformReleaseSettles ==
    /\ exPc = "performRelease"
    /\ pc = "done"
    /\ exResult' = IF result.kind = "return"
                   THEN Returned(ExecuteChangelogResult(context, "release",
                                                        Undefined, result.value))
                   ELSE result
    /\ exPc' = "done"
    /\ UNCHANGED exOptions
    /\ UNCHANGED RunVars
    /\ UNCHANGED OutsideExecute

ExecuteInit ==
    /\ exOptions \in [json : BOOLEAN, printMd : BOOLEAN, assets : RunAssets]
    /\ exPc = "called"
    /\ exResult = Pending
    /\ clone \in [shallow : BOOLEAN]
    /\ context = prepareRelease(
                    [dry |-> TRUE, output |-> Undefined, token |-> Undefined,
                     repoProvider |-> Str("github"), to |-> "v1.0.0",
                     assets |-> NoAssets],
                    <<"## Features">>, <<>>)
    /\ options = [assets |-> NoAssets]
    /\ pc = "idle"
    /\ calls = <<>>
    /\ settled = <<>>
    /\ writes = <<>>
    /\ stored = {}
    /\ result = Pending
    /\ NormIdle
    /\ GwIdle
    /\ CacheIdle
    /\ AuthorsIdle
    /\ SendReleaseIdle
    /\ UploadIdle
    /\ ProjectIdIdle
    /\ ConfigIdle
    /\ CliIdle
    /\ HasTagIdle

ExecuteNext ==
    \/ ExecuteChangelogCalled
    \/ PrepareReleaseSettles
    \/ Start
    \/ WriteFileSettles
    \/ HasTagSettles
    \/ IsRepoShallowSettles
    \/ SendReleaseSettles
    \/ UploadAssetsSettles
    \/ PerformReleaseSettles

SpecExecute == ExecuteInit /\ [][ExecuteNext]_vars

\* performRelease was called
PerformReleaseCalled == pc # "idle"

\* executeChangelog has returned a result
ExecuteReturned == exPc = "done" /\ exResult.kind = "return"

(* C32: with json or printMd set executeChangelog never calls
   performRelease: no provider call, no file write and no release result,
   and the mode of what it returns is json when json is set, whatever
   printMd is, and print-md otherwise.  With neither set, and only then,
   it calls performRelease once prepareRelease has resolved, with the
   assets of its caller, and returns or throws what performRelease did. *)
C32_ReleaseOnlyInReleaseMode ==
    /\ (exOptions.json \/ exOptions.printMd) =>
          /\ ~PerformReleaseCalled
          /\ calls = <<>>
          /\ writes = <<>>
          /\ stored = {}
          /\ result = Pending
          /\ ExecuteReturned =>
                /\ exResult.value.mode =
                      (IF exOptions.json THEN "json" ELSE "print-md")
                /\ exResult.value.release = Undefined
                /\ (exResult.value.jsonPayload # Undefined) <=> exOptions.json
    /\ (~exOptions.json /\ ~exOptions.printMd) =>
          /\ PerformReleaseCalled => options = [assets |-> exOptions.assets]
          /\ exPc = "performRelease" <=> PerformReleaseCalled /\ exResult = Pending
          /\ exPc = "done" =>
                \/ ~PerformReleaseCalled /\ exResult = Thrown(GenerateError)
                \/ /\ pc = "done"
                   /\ exResult = IF result.kind = "return"
                                 THEN Returned(ExecuteChangelogResult(context,
                                          "release", Undefined, result.value))
                                 ELSE result

\* json and printMd are both set, with assets: the json result is returned
\* and performRelease was not called
C32_Witness ==
    /\ ExecuteReturned
    /\ exOptions.json
    /\ exOptions.printMd
    /\ exOptions.assets = AssetString(<<"a">>)
    /\ exResult.value.mode = "json"
    /\ exResult.value.jsonPayload.commitsCount = 1
    /\ ~PerformReleaseCalled

--------------------------------------------------------------------------
(* performRelease with the hasTag of the GitLab adapter *)

\* the adapter the gateway hands hasTag to, "none" when it throws
HasTagAdapter ==
    GatewaySelect("hasTag", context.config.repoProvider).adapter

\* the gateway hands the call to the GitLab adapter
GitLabHasTagBegins ==
    /\ pc = "hasTag"
    /\ HasTagAdapter = "gitlab"
    /\ htPc = "idle"
    /\ htPc' = "called"
    /\ UNCHANGED <<htRequests, htResult, localProjectId>>
    /\ UNCHANGED RunVars
    /\ UNCHANGED OutsideHasTag

\* await hasTag(config.to, config) settles as the adapter's call
GitLabHasTagSettles ==
    /\ pc = "hasTag"
    /\ HasTagAdapter = "gitlab"
    /\ htPc = "done"
    /\ IF htResult.kind = "throw"
       THEN /\ Settle("hasTag", "throw")
            /\ Finish(htResult)
            /\ UNCHANGED calls
       ELSE /\ Settle("hasTag", BoolText(htResult.value))
            /\ Proceed(AfterHasTag(context, htResult.value))
    /\ UNCHANGED <<context, options, clone, writes, stored>>
    /\ UNCHANGED OutsideRun

\* hasTag of another adapter settles, or the gateway throws
OtherHasTagSettles ==
    /\ HasTagAdapter # "gitlab"
    /\ HasTagSettles

\* a run in a process whose cache is empty or was filled at load
ReleaseTagInit ==
    /\ context \in Contexts
    /\ options \in [assets : RunAssets]
    /\ clone \in [shallow : BOOLEAN]
    /\ localProjectId \in {NoProjectId, FetchedProjectId}
    /\ pc = "prepared"
    /\ calls = <<>>
    /\ settled = <<>>
    /\ writes = <<>>
    /\ stored = {}
    /\ result = Pending
    /\ NormIdle
    /\ GwIdle
    /\ AuthorsIdle
    /\ SendReleaseIdle
    /\ UploadIdle
    /\ ProjectIdIdle
    /\ ConfigIdle
    /\ CliIdle
    /\ ExecuteIdle
    /\ HasTagIdle

ReleaseTagNext ==
    \/ Start
    \/ WriteFileSettles
    \/ GitLabHasTagBegins
    \/ HasTagOnGitLabCalled
    \/ HasTagProjectSettles
    \/ HasTagTagSettles
    \/ GitLabHasTagSettles
    \/ OtherHasTagSettles
    \/ IsRepoShallowSettles
    \/ SendReleaseSettles
    \/ UploadAssetsSettles

SpecReleaseTag == ReleaseTagInit /\ [][ReleaseTagNext]_vars

\* a request of hasTagOnGitLab has failed
TagCheckFailed ==
    \E k \in DOMAIN htRequests : htRequests[k].outcome = "error"

(* C33: hasTagOnGitLab never raises: it answers false when its project-id
   lookup or its tag request failed and true only when the tag request
   succeeded; and a run of performRelease whose tag check failed calls
   nothing after hasTag and, once hasTag has settled, has ended in
   MISSING_TAG without calling sendRelease. *)
C33_TagCheckNeverRaises ==
    /\ htResult.kind # "throw"
    /\ htPc = "done" =>
          /\ htResult.kind = "return"
          /\ htResult.value <=>
                /\ htRequests # <<>>
                /\ htRequests[Len(htRequests)] = [kind |-> "tag", outcome |-> "ok"]
          /\ htResult.value <=> ~TagCheckFailed
    /\ TagCheckFailed =>
          /\ htPc = "done"
          /\ htResult = Returned(FALSE)
          /\ ~Invoked("sendRelease")
          /\ ~Invoked("uploadAssets")
          /\ calls[Len(calls)].op = "hasTag"
          /\ pc \in {"hasTag", "done"}
          /\ Done =>
                /\ HasSettled("hasTag", "false")
                /\ ThrewCode("MISSING_TAG")

\* the project of a GitLab run cannot be looked up: the run ends in
\* MISSING_TAG after the one request
C33_Witness ==
    /\ Done
    /\ context.config.repoProvider = Str("gitlab")
    /\ htRequests = <<[kind |-> "project", outcome |-> "error"]>>
    /\ htResult = Returned(FALSE)
    /\ ThrewCode("MISSING_TAG")
    /\ NetworkCalls = <<"hasTag">>

--------------------------------------------------------------------------
(* performRelease on GitLab once the release is sent *)

\* options.assets of these runs: unset, a string, or a list of files
GitLabReleaseAssets ==
    {NoAssets, AssetString(<<"a">>)}
    \cup {AssetArray(l) : l \in SeqsUpTo({<<"a">>}, MaxUploadPatterns)}

\* the runs on GitLab that get past the local checks: not dry, no output
\* file, a token, and commits, so that the clone is not looked at
GitLabReleaseInit ==
    /\ context \in {prepareRelease(config, <<"## Features">>, <<"c1">>) :
                       config \in {c \in Configs :
                                      /\ c.repoProvider = Str("gitlab")
                                      /\ ~c.dry
                                      /\ c.output = Undefined
                                      /\ Truthy(c.token)}}
    /\ options \in [assets : GitLabReleaseAssets]
    /\ clone = [shallow |-> FALSE]
    /\ pc = "prepared"
    /\ calls = <<>>
    /\ settled = <<>>
    /\ writes = <<>>
    /\ stored = {}
    /\ result = Pending
    /\ NormIdle
    /\ GwIdle
    /\ CacheIdle
    /\ AuthorsIdle
    /\ SendReleaseIdle
    /\ UploadIdle
    /\ ProjectIdIdle
    /\ ConfigIdle
    /\ CliIdle
    /\ ExecuteIdle
    /\ HasTagIdle

GitLabReleaseNext ==
    \/ Start
    \/ HasTagSettles
    \/ SendReleaseSettles
    \/ GitLabUploadBegins
    \/ UploadAssetsCalled
    \/ GlobSettles
    \/ ReadFileSettles
    \/ UploadFileSettles
    \/ ReleaseFetchSettles
    \/ ReleaseUpdateSettles
    \/ GitLabUploadSettles

\* every promise a run awaits settles: a step that can be taken is taken
SpecGitLabRelease ==
    GitLabReleaseInit /\ [][GitLabReleaseNext]_vars /\ WF_vars(GitLabReleaseNext)

\* sendRelease of the GitLab adapter has succeeded in the run
GitLabReleaseSent ==
    /\ context.config.repoProvider = Str("gitlab")
    /\ HasSettled("sendRelease", "ok")

\* a glob, a read, an upload or the update of the description has failed
UploadStepFailed == \E k \in DOMAIN upSteps : upSteps[k].outcome = "error"

\* the run has returned 'released' with the normalized list of the assets
\* asked for, undefined when that list is empty
ReleasedWithRequestedAssets ==
    /\ ReturnedOutcome("released")
    /\ LET requested == normalizeAssets(AssetsInput(context, options))
       IN result.value.uploadedAssets =
             IF requested = <<>> THEN NoAssets ELSE AssetArray(requested)

(* C35: on GitLab a run whose sendRelease has succeeded never holds an
   error, ends, and has then returned 'released' with the normalized list
   of the assets asked for as uploadedAssets, whatever failed inside
   uploadAssets and whether or not a file was uploaded. *)
C35_ReleasedOnceSent ==
    /\ [](GitLabReleaseSent =>
             /\ result.kind # "throw"
             /\ upResult.kind # "throw"
             /\ Done => ReleasedWithRequestedAssets)
    /\ (GitLabReleaseSent ~> (Done /\ ReleasedWithRequestedAssets))

\* the file asked for cannot be read, nothing is uploaded and no link is
\* written: the run returns 'released' and reports the file
C35_Witness ==
    /\ Done
    /\ GitLabReleaseSent
    /\ UploadStepFailed
    /\ upLinks = <<>>
    /\ StepsOf("update") = {}
    /\ ReleasedWithRequestedAssets
    /\ result.value.uploadedAssets = AssetArray(<< <<"a">> >>)


--------------------------------------------------------------------------
(* The asset list of the adapter and the normalized list of the run *)

\* uploadAssets of the adapter builds assetList from the specification
\* normalizeAssets is applied to
AdapterParses ==
    /\ normPc # "idle"
    /\ ~adapterList.parsed
    /\ adapterList' = [parsed |-> TRUE, list |-> AssetListOf(assetsArg)]
    /\ UNCHANGED <<assetsArg, normPc, normResult, joinedResult>>
    /\ UNCHANGED OutsideNorm

\* both parsers are given one string or one list of strings
AssetListsInit ==
    /\ AssetsInit
    /\ assetsArg # NoAssets

\* either the two parsers on one input, or a run of performRelease
AssetHandoffInit == AssetListsInit \/ Init

AssetHandoffNext ==
    \/ Normalize
    \/ AdapterParses
    \/ ReleaseUploadNext

SpecAssetHandoff == AssetHandoffInit /\ [][AssetHandoffNext]_vars

\* the adapter's uploadAssets has built its assetList in the run
AdapterListBuilt == upPc \notin {"idle", "called", "project"}

(* C36: the list the GitLab adapter parses from a string or a list of
   strings is the list normalizeAssets gives for it; in a run uploadAssets
   of the adapter is handed the raw asset input, the assetList it builds is
   the normalized list of that input, and a 'released' outcome reports that
   list, in that order, as uploadedAssets. *)
C36_AdapterListIsNormalizedList ==
    /\ (normPc = "returned" /\ adapterList.parsed) =>
          adapterList.list = normResult
    /\ upPc # "idle" => upAssets = AssetsInput(context, options)
    /\ AdapterListBuilt =>
          /\ upList # <<>>
          /\ upList = normalizeAssets(AssetsInput(context, options))
          /\ ReturnedOutcome("released") =>
                result.value.uploadedAssets = AssetArray(upList)

C36_Witness ==
    /\ Done
    /\ AdapterListBuilt
    /\ options.assets = AssetArray(<< <<"a", ",", "a">> >>)
    /\ upAssets = options.assets
    /\ upList = << <<"a">>, <<"a">> >>
    /\ ReturnedOutcome("released")
    /\ result.value.uploadedAssets = AssetArray(upList)


--------------------------------------------------------------------------
(* resolveAuthors: a commit whose first author is excluded *)

\* the author at index 0 of the commit does not pass the exclusion filter
FirstAuthorExcluded(commit) ==
    commit.authors # <<>> /\ ~Kept(commit.authors[1])

\* the commit has a co-author, at index 1 or later, that passes the filter
HasKeptCoAuthor(commit) ==
    \E k \in 2..Len(commit.authors) : Kept(commit.authors[k])

(* C37: once the Map is built, the short hash of a commit whose author at
   index 0 is excluded (a bot name, or no name or no email) is in the
   commits list of no AuthorInfo, whatever co-authors the commit has. *)
C37_ExcludedFirstAuthorNoCredit ==
    MapBuilt =>
        \A ci \in DOMAIN auCommits :
            FirstAuthorExcluded(auCommits[ci]) =>
                \A info \in DOMAIN auHeap :
                    Credits(info, auCommits[ci].shortHash) = 0

C37_Witness ==
    /\ MapBuilt
    /\ Len(auCommits) = 1
    /\ auCommits[1].authors =
          <<[name |-> <<"[", "B", "o", "t", "]">>, email |-> "ann@x.io"],
            [name |-> <<"a", "n", "n">>, email |-> "ann@x.io"]>>
    /\ FirstAuthorExcluded(auCommits[1])
    /\ HasKeptCoAuthor(auCommits[1])
    /\ Len(auHeap) = 1
    /\ auHeap[1].name = <<"a", "n", "n">>
    /\ auHeap[1].commits = <<>>
    /\ auResolved[1] = <<1>>


--------------------------------------------------------------------------
(* resolveAuthors: the records the final filter drops *)

\* the records of the returned list
Survivors == {auResult.value[k] : k \in DOMAIN auResult.value}

\* a record the filter dropped: an earlier record of the sorted list has
\* its login, or its name when both have no login
DroppedBy(d, s) ==
    /\ d \notin Survivors
    /\ s \in Survivors
    /\ SharesKey(auHeap[s], auHeap[d])

\* the hashes of the commits whose author at index 0 passes the exclusion
\* filter and has this email, in commit order
RECURSIVE FirstAuthorHashes(_, _)
FirstAuthorHashes(commits, email) ==
    IF commits = <<>> THEN <<>>
    ELSE LET c == Head(commits)
             own == c.authors # <<>> /\ Kept(c.authors[1])
                       /\ c.authors[1].email = email
         IN (IF own THEN <<c.shortHash>> ELSE <<>>)
            \o FirstAuthorHashes(Tail(commits), email)

\* the commit names the email in an entry that passes the exclusion filter
NamesEmail(commit, email) ==
    \E k \in DOMAIN commit.authors :
        Kept(commit.authors[k]) /\ commit.authors[k].email = email

(* C38: when resolveAuthors has returned a list and the filter dropped a
   record for a surviving one with the same login (or name), both records
   hold the commits of their own email only, so nothing of the dropped
   record is merged into the survivor, and resolvedAuthors of every commit
   that names the dropped record's email still holds the dropped record. *)
C38_DroppedRecordNotMerged ==
    ListReturned =>
        \A d, s \in DOMAIN auHeap :
            DroppedBy(d, s) =>
                /\ auHeap[s].commits =
                      FirstAuthorHashes(auCommits, auHeap[s].email)
                /\ auHeap[d].commits =
                      FirstAuthorHashes(auCommits, auHeap[d].email)
                /\ \A ci \in DOMAIN auCommits :
                      NamesEmail(auCommits[ci], auHeap[d].email) =>
                          \E j \in DOMAIN auResolved[ci] :
                              auResolved[ci][j] = d

\* two people named ann with different emails, each the author of one
\* commit: the second record is dropped and keeps h2
C38_Witness ==
    /\ ListReturned
    /\ Len(auHeap) = 2
    /\ auHeap[1].email = "ann@x.io"
    /\ auHeap[2].email = "bob@x.io"
    /\ auResult.value = <<1>>
    /\ DroppedBy(2, 1)
    /\ auHeap[1].commits = <<"h1">>
    /\ auHeap[2].commits = <<"h2">>
    /\ auResolved = << <<1>>, <<2>> >>

==========================================================================
